---- MODULE Spec2Model ----
(***************************************************************************)
(* Content store (ArticleStore), filesystem watcher and search index of    *)
(* the scribe backend, modelled from src/backend/src.                       *)
(*                                                                         *)
(* A source file is a path <<root, dir, stem>> (dir = "" for a file that    *)
(* lies directly under the content root; only .md files are modelled, the  *)
(* scan ignores every other file).  A file's content is its front matter   *)
(* (or a block that does not parse) and its body.                          *)
(***************************************************************************)
EXTENDS Integers, Sequences, FiniteSets, TLC

\* ------------------------------------------------------------------ bounds
MaxClock == 2        \* filesystem operations after start-up (mtimes 1..MaxClock)
SlugAttempts == 2    \* stands for the 100 of prepare_metadata's `counter > 100`

\* ------------------------------------------------------ program constants
ARTICLE_DIR == "article"
NOTES_DIR == "notes"
ENABLE_NESTED_CATEGORIES == TRUE

\* Option::None of an optional string (the empty string is a different value)
None == "<none>"

\* ------------------------------------------------------------- the files
ArticlePaths ==
    { <<ARTICLE_DIR, "", "a">>, <<ARTICLE_DIR, "c", "a">>, <<ARTICLE_DIR, "", "b">> }

NotePaths == { <<NOTES_DIR, "", "a">>, <<NOTES_DIR, "k", "a">> }

AllPaths == ArticlePaths \cup NotePaths

\* a plausible slip: the suffix is the counter after its increment
format_slug_next(base_slug, counter) == base_slug \o "-" \o ToString(counter + 1)

\* format!("{}-{}", base_slug, counter)
format_slug(base_slug, counter) == base_slug \o "-" \o ToString(counter)

\* the slugs prepare_metadata can choose for the base slug "a"
CreateSlugs == {"a"} \cup { format_slug("a", k) : k \in 1..SlugAttempts }

\* the files create_article can write
CreatePaths == { <<ARTICLE_DIR, dir, s>> : dir \in {"", "c"}, s \in CreateSlugs }

\* a file that process_article_file skips: its stem is "readme"
ReadmePaths == { <<ARTICLE_DIR, "", "readme">> }

FilePaths == AllPaths \cup CreatePaths \cup ReadmePaths

RootPaths(root) == { p \in FilePaths : p[1] = root }

\* what a writer may put into a file: three front matters that parse and a
\* block that does not
GoodContents ==
    { [ok |-> TRUE, title |-> "t1", date |-> 1, draft |-> FALSE, tags |-> {"x"},
       category |-> None, body |-> "b1"],
      [ok |-> TRUE, title |-> "t2", date |-> 2, draft |-> FALSE, tags |-> {},
       category |-> None, body |-> "b2"],
      [ok |-> TRUE, title |-> "t3", date |-> 3, draft |-> TRUE, tags |-> {"y"},
       category |-> None, body |-> "b3"] }

BadContent ==
    [ok |-> FALSE, title |-> "", date |-> 0, draft |-> FALSE, tags |-> {},
     category |-> None, body |-> ""]

Contents == GoodContents \cup {BadContent}

NoFile == [exists |-> FALSE]

FileOf(c, t) == [exists |-> TRUE, mtime |-> t, content |-> c]

\* the orders in which a directory walk or a hash set may yield a set of paths
RECURSIVE Perms(_)
Perms(S) ==
    IF S = {} THEN { <<>> }
    ELSE UNION { { <<x>> \o q : q \in Perms(S \ {x}) } : x \in S }


\* ------------------------------------------------------------ the state
VARIABLES
    files,        \* the filesystem: path -> NoFile or a file with mtime and content
    clock,        \* the filesystem's modification clock
    store,        \* AppState.store: the ArticleStore of the articles root
    note_store,   \* AppState.note_store: the ArticleStore of the notes root
    ret,          \* what the last incremental_update returned
    quiet,        \* incremental_update calls since the catalog's files last changed (at most 2)
    hpc,          \* update_article: where the handler stands
    hreq,         \* update_article: the request's locals
    tokens,       \* per root: the debounce tokens waiting in the watcher's channel
    wpc,          \* per root: where the watcher task stands
    wloc,         \* per root: the watcher's locals (changes, removed_map)
    index,        \* the committed documents of the search index
    index_queue,  \* the jobs in the indexer channel, oldest first
    jobs_sent,    \* how many jobs have been sent to the indexer channel
    version_files,  \* per slug: the files of data/articles/<slug>/versions, by their integer name
    now,  \* Utc::now() in milliseconds
    vpc,  \* per caller of save_version: where the call stands
    vloc,  \* per caller of save_version: the call's locals
    cpc,  \* create_article: where the handler stands
    creq,  \* create_article: the request's locals
    cres,  \* create_article: the last response
    layout_nested,  \* the layout the server is built with: config::ENABLE_NESTED_CATEGORIES
    readable,  \* whether fs::read_dir of the articles root succeeds
    index_writer,  \* SearchService: the IndexWriter of a rebuild and what it has staged
    cache,  \* the keys of the responses the response cache holds
    worker_pc,  \* the indexer worker: awaiting a job or draining the channel
    worker_batch,  \* the batch the indexer worker is forming
    sent_log,  \* history: every job sent on the channel, in order
    applied_log,  \* history: the batches passed to apply_batch, in order
    upc,  \* incremental_update: idle or inside the loop over its changes
    uloc,  \* incremental_update: the changes still to apply and its flags
    search_stats,  \* SearchService.search_stats: query text -> times recorded
    recent_searches,  \* SearchService.recent_searches: the ring of SearchStats
    spc,  \* record_search's position: idle, or recent (stats lock held)
    sreq,  \* the query text record_search was called with
    recorded,  \* history: every query text in the order record_search took the stats lock
    cpc2,  \* a second create_article request: its position
    creq2,  \* the second request's payload and locals
    cres2,  \* the second request's response
    gpc,  \* an unauthenticated GET in the cache layer: idle, handler or insert
    gresp,  \* the cache key of that GET and the response its handler computed
    gserved   \* the body of the last response answered from the cache

watchVars == <<tokens, wpc, wloc, index>>

indexerVars == <<index_queue, jobs_sent>>

versionVars == <<version_files, now, vpc, vloc>>

createVars == <<cpc, creq, cres>>

buildVars == <<layout_nested, readable>>

writerVars == <<index_writer>>

cacheVars == <<cache>>

workerVars == <<worker_pc, worker_batch, sent_log, applied_log>>

updateVars == <<upc, uloc>>

statsVars == <<search_stats, recent_searches, spc, sreq, recorded>>

secondVars == <<cpc2, creq2, cres2>>

getVars == <<gpc, gresp, gserved>>

vars == <<files, clock, store, note_store, ret, quiet, hpc, hreq, tokens, wpc, wloc, index,
          index_queue, jobs_sent,
          version_files, now, vpc, vloc,
          cpc, creq, cres,
          layout_nested, readable,
          index_writer,
          cache,
          worker_pc, worker_batch, sent_log, applied_log,
          upc, uloc,
          search_stats, recent_searches, spc, sreq, recorded,
          cpc2, creq2, cres2,
          gpc, gresp, gserved>>

\* ------------------------------------------------------- pure helpers
RECURSIVE SeqFilter(_, _)
\* the elements of sequence s that lie in set S, in the order of s
SeqFilter(s, S) ==
    IF s = <<>> THEN <<>>
    ELSE IF Head(s) \in S THEN <<Head(s)>> \o SeqFilter(Tail(s), S)
    ELSE SeqFilter(Tail(s), S)

\* map insert and remove on a function with a finite domain
MapPut(m, k, v) == [x \in DOMAIN m \cup {k} |-> IF x = k THEN v ELSE m[x]]
MapDel(m, k) == [x \in DOMAIN m \ {k} |-> m[x]]
EmptyMap == [x \in {} |-> 0]

\* Path::file_stem of "<stem>.md"
file_stem(path) == path[3]

\* the .md files a scan of the root yields: every file below the root when the
\* layout is nested, the files directly in the root when it is flat
collect_all_files(fs, root, nested) ==
    { p \in RootPaths(root) : fs[p].exists /\ (nested \/ p[2] = "") }

\* the parent directory relative to the content root; None for the root itself
calculate_category(path) == IF path[2] = "" THEN None ELSE path[2]

\* one parsed file: Err, Ok without an article (a readme), or Ok with one
process_article_file(fs, path, category) ==
    IF file_stem(path) = "readme"
    THEN [ok |-> TRUE, articles |-> <<>>, tags |-> {}]
    ELSE IF ~fs[path].exists \/ ~fs[path].content.ok
    THEN [ok |-> FALSE, articles |-> <<>>, tags |-> {}]
    ELSE LET c == fs[path].content
             md == [title |-> c.title, date |-> c.date, draft |-> c.draft,
                    tags |-> c.tags,
                    category |-> IF category # None THEN category ELSE c.category]
         IN [ok |-> TRUE,
             articles |-> << [slug |-> file_stem(path), metadata |-> md,
                              file_path |-> path, last_modified |-> fs[path].mtime,
                              deleted |-> FALSE] >>,
             tags |-> IF c.draft THEN {} ELSE c.tags]

RECURSIVE insert_desc(_, _)
insert_desc(a, s) ==
    IF s = <<>> THEN <<a>>
    ELSE IF Head(s).metadata.date >= a.metadata.date
         THEN <<Head(s)>> \o insert_desc(a, Tail(s))
         ELSE <<a>> \o s

RECURSIVE sort_fold(_, _)
sort_fold(done, todo) ==
    IF todo = <<>> THEN done
    ELSE sort_fold(insert_desc(Head(todo), done), Tail(todo))

\* articles.sort_by(|a, b| b.metadata.date.cmp(&a.metadata.date)): a stable sort
sort_by_date_desc(articles) == sort_fold(<<>>, articles)

IsSortedDesc(articles) ==
    \A i \in 1..(Len(articles) - 1) :
        articles[i].metadata.date >= articles[i + 1].metadata.date

\* collect() of (slug, idx) pairs into a HashMap: a later pair replaces an earlier
slug_map_of(articles, keep_deleted) ==
    LET live == { i \in 1..Len(articles) : keep_deleted \/ ~articles[i].deleted }
        slugs == { articles[i].slug : i \in live }
    IN [s \in slugs |->
            CHOOSE i \in live : /\ articles[i].slug = s
                                /\ \A j \in live : articles[j].slug = s => j <= i]

\* the orders in which a walk of the root may yield its files
WalkOrders(fs, root, nested) == Perms(collect_all_files(fs, root, nested))

\* the orders in which the hash set of current files and the keys of file_cache
\* may be iterated
ScanOrders(s, fs, root, nested) ==
    Perms(collect_all_files(fs, root, nested) \cup DOMAIN s.file_cache)

\* ------------------------------------------------------- ArticleStore
RECURSIVE load_articles(_, _, _, _)
\* load_articles_recursive / load_articles_flat over the walk `todo`: the first
\* file that fails to parse fails the whole load
load_articles(fs, todo, nested, acc) ==
    IF todo = <<>> \/ ~acc.ok THEN acc
    ELSE LET path == Head(todo)
             category == IF nested THEN calculate_category(path) ELSE None
             r == process_article_file(fs, path, category)
         IN load_articles(fs, Tail(todo), nested,
                [ok |-> r.ok,
                 articles |-> acc.articles \o r.articles,
                 tags |-> acc.tags \cup r.tags,
                 categories |-> IF category # None
                                THEN acc.categories \cup {category}
                                ELSE acc.categories])

\* ArticleStore::new; `order` is the order in which the directory walk yields
\* the files
new(fs, root, nested, order) ==
    LET walk == SeqFilter(order, collect_all_files(fs, root, nested))
        l == load_articles(fs, walk, nested,
                 [ok |-> TRUE, articles |-> <<>>, tags |-> {}, categories |-> {}])
        articles == sort_by_date_desc(l.articles)
    IN [ok |-> l.ok,
        store |-> [articles |-> articles,
                   slug_map |-> slug_map_of(articles, TRUE),
                   tags |-> l.tags,
                   categories |-> l.categories,
                   file_cache |-> [p \in { articles[i].file_path : i \in 1..Len(articles) }
                                      |-> fs[p].mtime],
                   content_cache |-> EmptyMap]]

Added == "Added"
Modified == "Modified"
Removed == "Removed"

RECURSIVE scan_changes_not_strict(_, _, _)
\* a plausible slip: a file whose mtime equals the cached one counts as modified
scan_changes_not_strict(s, fs, todo) ==
    IF todo = <<>> THEN <<>>
    ELSE LET file_path == Head(todo)
             rest == scan_changes_not_strict(s, fs, Tail(todo))
         IN IF file_path \in DOMAIN s.file_cache
            THEN IF fs[file_path].mtime >= s.file_cache[file_path]
                 THEN << [path |-> file_path, change_type |-> Modified] >> \o rest
                 ELSE rest
            ELSE << [path |-> file_path, change_type |-> Added] >> \o rest

RECURSIVE scan_changes(_, _, _)
\* the first loop of detect_file_changes, over the current files
scan_changes(s, fs, todo) ==
    IF todo = <<>> THEN <<>>
    ELSE LET file_path == Head(todo)
             rest == scan_changes(s, fs, Tail(todo))
         IN IF file_path \in DOMAIN s.file_cache
            THEN IF fs[file_path].mtime > s.file_cache[file_path]
                 THEN << [path |-> file_path, change_type |-> Modified] >> \o rest
                 ELSE rest
            ELSE << [path |-> file_path, change_type |-> Added] >> \o rest

RECURSIVE removed_changes(_)
\* the second loop of detect_file_changes, over the cached paths that are gone
removed_changes(todo) ==
    IF todo = <<>> THEN <<>>
    ELSE << [path |-> Head(todo), change_type |-> Removed] >> \o removed_changes(Tail(todo))

\* ArticleStore::detect_file_changes; `order` is the iteration order of the hash
\* set of current files and of the keys of file_cache
detect_file_changes(s, fs, root, nested, order) ==
    LET current_files == collect_all_files(fs, root, nested)
    IN scan_changes(s, fs, SeqFilter(order, current_files))
       \o removed_changes(SeqFilter(order, DOMAIN s.file_cache \ current_files))

\* position(|a| a.slug == slug): the first entry with the slug, 0 when none
position_of_slug(articles, slug) ==
    LET hits == { i \in 1..Len(articles) : articles[i].slug = slug }
    IN IF hits = {} THEN 0 ELSE CHOOSE i \in hits : \A j \in hits : i <= j

\* a plausible slip: a file that fails to load loses the entry it had
update_single_article_forgets(s, fs, file_path, nested) ==
    LET category == IF nested THEN calculate_category(file_path) ELSE None
        r == process_article_file(fs, file_path, category)
    IN IF r.ok THEN [ok |-> TRUE, store |-> s]
       ELSE [ok |-> FALSE,
             store |-> [s EXCEPT !.articles =
                           SelectSeq(@, LAMBDA a : a.file_path # file_path)]]

\* a plausible slip: the cached body of the path is not removed
update_single_article_keeps_body(s, fs, file_path, nested) ==
    LET category == IF nested THEN calculate_category(file_path) ELSE None
        r == process_article_file(fs, file_path, category)
    IN IF ~r.ok THEN [ok |-> FALSE, store |-> s]
       ELSE IF r.articles = <<>> THEN [ok |-> TRUE, store |-> s]
       ELSE LET new_article == r.articles[1]
                existing_index == position_of_slug(s.articles, new_article.slug)
            IN [ok |-> TRUE,
                store |-> [s EXCEPT
                    !.articles = IF existing_index # 0
                                 THEN [@ EXCEPT ![existing_index] = new_article]
                                 ELSE Append(@, new_article),
                    !.tags = @ \cup r.tags,
                    !.categories = IF category # None THEN @ \cup {category} ELSE @]]

\* ArticleStore::update_single_article
update_single_article(s, fs, file_path, nested) ==
    LET purged == [s EXCEPT !.content_cache = MapDel(@, file_path)]
        category == IF nested THEN calculate_category(file_path) ELSE None
        r == process_article_file(fs, file_path, category)
    IN IF ~r.ok THEN [ok |-> FALSE, store |-> purged]
       ELSE IF r.articles = <<>> THEN [ok |-> TRUE, store |-> purged]
       ELSE LET new_article == r.articles[1]
                existing_index == position_of_slug(s.articles, new_article.slug)
            IN [ok |-> TRUE,
                store |-> [purged EXCEPT
                    !.articles = IF existing_index # 0
                                 THEN [@ EXCEPT ![existing_index] = new_article]
                                 ELSE Append(@, new_article),
                    !.tags = @ \cup r.tags,
                    !.categories = IF category # None THEN @ \cup {category} ELSE @]]

\* ArticleStore::remove_article_by_path
remove_article_by_path(s, file_path) ==
    LET purged == [s EXCEPT !.content_cache = MapDel(@, file_path)]
        hits == { i \in 1..Len(s.articles) : s.articles[i].file_path = file_path }
    IN IF hits = {} THEN [removed |-> FALSE, store |-> purged]
       ELSE LET i == CHOOSE k \in hits : \A j \in hits : k <= j
            IN [removed |-> TRUE,
                store |-> [purged EXCEPT
                    !.articles = [@ EXCEPT ![i] = [@ EXCEPT !.deleted = TRUE]],
                    !.slug_map = MapDel(@, s.articles[i].slug)]]

\* ArticleStore::rebuild_indexes
rebuild_indexes(s) ==
    LET articles == sort_by_date_desc(s.articles)
    IN [s EXCEPT !.articles = articles, !.slug_map = slug_map_of(articles, FALSE)]

\* a plausible slip: the mtime cache is not refreshed after an update
update_file_cache_stale(s, fs, root, nested) ==
    [s EXCEPT !.content_cache =
        [p \in DOMAIN @ \cap collect_all_files(fs, root, nested) |-> @[p]]]

\* ArticleStore::update_file_cache
update_file_cache(s, fs, root, nested) ==
    LET current_files == collect_all_files(fs, root, nested)
        file_cache == [p \in current_files |-> fs[p].mtime]
    IN [s EXCEPT !.file_cache = file_cache,
                 !.content_cache = [p \in DOMAIN @ \cap current_files |-> @[p]]]

RECURSIVE apply_changes(_, _, _, _)
\* the loop of incremental_update over the change set
apply_changes(acc, fs, changes, nested) ==
    IF changes = <<>> THEN acc
    ELSE LET change == Head(changes)
         IN IF change.change_type \in {Added, Modified}
            THEN LET u == update_single_article(acc.store, fs, change.path, nested)
                 IN apply_changes([store |-> u.store,
                                   articles_changed |-> acc.articles_changed \/ u.ok],
                                  fs, Tail(changes), nested)
            ELSE LET d == remove_article_by_path(acc.store, change.path)
                 IN apply_changes([store |-> d.store,
                                   articles_changed |-> acc.articles_changed \/ d.removed],
                                  fs, Tail(changes), nested)

\* ArticleStore::incremental_update on an unchanging filesystem
incremental_update(s, fs, root, nested, order) ==
    LET changes == detect_file_changes(s, fs, root, nested, order)
        applied == apply_changes([store |-> s, articles_changed |-> FALSE],
                                 fs, changes, nested)
    IN IF changes = <<>> THEN [ret |-> FALSE, store |-> s]
       ELSE IF applied.articles_changed
       THEN [ret |-> TRUE,
             store |-> update_file_cache(rebuild_indexes(applied.store), fs, root, nested)]
       ELSE [ret |-> FALSE, store |-> applied.store]

\* ArticleStore::get_by_slug: the entry, or <<>> for no entry
get_by_slug(s, slug) ==
    IF slug \in DOMAIN s.slug_map /\ s.slug_map[slug] \in 1..Len(s.articles)
    THEN << s.articles[s.slug_map[slug]] >>
    ELSE <<>>

\* handlers::articles::matches_filters without a text search
matches_filters(article, tag, category) ==
    /\ ~article.metadata.draft
    /\ tag # None => tag \in article.metadata.tags
    /\ category # None => article.metadata.category = category

\* the predicates the callers pass to query: the list handlers' filter, and the
\* closures of the watcher and of the note handler, which admit drafts
Preds ==
    { [kind |-> "any"] }
    \cup { [kind |-> "filters", tag |-> tg, category |-> cat] :
                tg \in {None, "x"}, cat \in {None, "c"} }
    \cup { [kind |-> "path", file_path |-> p] : p \in AllPaths }

Admits(pd, a) ==
    CASE pd.kind = "any" -> TRUE
      [] pd.kind = "filters" -> matches_filters(a, pd.tag, pd.category)
      [] pd.kind = "path" -> a.file_path = pd.file_path

\* a plausible slip: the tombstones are not filtered out
query_keeps_tombstones(s, pd) == SelectSeq(s.articles, LAMBDA a : Admits(pd, a))

\* ArticleStore::query: the entries that are not deleted and pass the filter
query(s, pd) == SelectSeq(s.articles, LAMBDA a : ~a.deleted /\ Admits(pd, a))

\* query(filter, offset, limit) as the handlers call it: the window
\* offset .. offset+limit-1 of the filtered entries
query_window(s, pd, offset, limit) ==
    LET q == query(s, pd)
        last == IF offset + limit < Len(q) THEN offset + limit ELSE Len(q)
    IN SubSeq(q, offset + 1, last)

\* params.limit when the request names none
DefaultLimit == 10

\* get_articles_list for a request without parameters: the teasers of the first
\* page and the number of pages' worth of entries
list_response(s) ==
    LET pd == [kind |-> "filters", tag |-> None, category |-> None]
        page == query_window(s, pd, 0, DefaultLimit)
    IN [articles |-> [i \in 1..Len(page) |->
                         [slug |-> page[i].slug, metadata |-> page[i].metadata]],
        total_articles |-> Len(query(s, pd))]

\* ------------------------------------------------------------- start-up
InitContent(p) ==
    CHOOSE c \in GoodContents :
        c.title = (IF p[2] # "" THEN "t3" ELSE IF p[3] = "a" THEN "t1" ELSE "t2")

\* the content roots at start-up: any set of files, each of which parses
\* (create_app_state fails when ArticleStore::new fails)
InitFiles(present) ==
    [p \in FilePaths |-> IF p \in present THEN FileOf(InitContent(p), 0) ELSE NoFile]

NoRequest == [slug |-> None]

Roots == {ARTICLE_DIR, NOTES_DIR}

\* the locals of a watcher cycle; `before` keeps what the catalog was when the
\* cycle took the write lock
NoLocals == [changes |-> <<>>, removed_map |-> EmptyMap, inner |-> <<>>, before |-> <<>>]

EmptyStore ==
    [articles |-> <<>>, slug_map |-> EmptyMap, tags |-> {}, categories |-> {},
     file_cache |-> EmptyMap, content_cache |-> EmptyMap]

NoCreate == [title |-> None]

NoResponse == [status |-> "none", slug |-> None, message |-> None]

\* no IndexWriter is open and no rebuild has ended yet
NoWriter == [open |-> FALSE, result |-> "none", cleared |-> FALSE]

NoWriterOpen == index_writer = NoWriter

\* the locals of incremental_update outside a call
NoUpdate == [todo |-> <<>>, articles_changed |-> FALSE, applied |-> 0, before |-> <<>>]

\* no search has been recorded
NoSearches ==
    /\ search_stats = EmptyMap
    /\ recent_searches = <<>>
    /\ spc = "idle"
    /\ sreq = "<none>"
    /\ recorded = <<>>

\* no incremental_update is inside its loop
NoUpdateRunning ==
    /\ upc = "idle"
    /\ uloc = NoUpdate

\* the worker awaits a job and nothing has been sent
WorkerAwaits ==
    /\ worker_pc = "recv"
    /\ worker_batch = <<>>
    /\ sent_log = <<>>
    /\ applied_log = <<>>

\* the keys under which the response cache can hold a response
CacheKeys == {"/api/articles?"}

\* Cache::builder()..build(): no response is held
NoResponses == cache = EmptyMap

\* state.cache.invalidate_all()
invalidate_all(c) == EmptyMap

\* the build of config.rs, on a content root that can be listed
ShippedBuild ==
    /\ layout_nested = ENABLE_NESTED_CATEGORIES
    /\ readable = TRUE

\* no create_article request under way
NoCreateRunning ==
    /\ cpc = "idle"
    /\ creq = NoCreate
    /\ cres = NoResponse

NoGet == [key |-> None]

\* no GET is inside the cache layer and none was answered from the cache
NoGetRunning ==
    /\ gpc = "idle"
    /\ gresp = NoGet
    /\ gserved = [hit |-> FALSE]

\* no second create_article is running
NoSecondCreate ==
    /\ cpc2 = "idle"
    /\ creq2 = NoCreate
    /\ cres2 = NoResponse

\* ------------------------------------------------ the version directories
MaxVersion == 3
MaxNow == 1

\* the integer names a version file can take
VersionNames == 0..MaxVersion

\* the slugs that have a version directory
VersionSlugs == {"a", "b"} \cup CreateSlugs

\* the tasks that call save_version
Callers == {1, 2}

\* a file just created by create_new: empty; `saved` marks the files that
\* save_version created since start-up
EmptyVersion == [exists |-> TRUE, text |-> <<>>, saved |-> TRUE]

\* a version file left by an earlier run of the server
OldVersion == [exists |-> TRUE, text |-> <<BadContent>>, saved |-> FALSE]

NoVersion == [exists |-> FALSE]

NoSave == [slug |-> None]

\* no version file yet and no save_version call under way
NoSaveRunning ==
    /\ version_files = [s \in VersionSlugs |-> [n \in VersionNames |-> NoVersion]]
    /\ now = 0
    /\ vpc = [c \in Callers |-> "idle"]
    /\ vloc = [c \in Callers |-> NoSave]

\* the catalog alone: the articles root, the notes root empty
Init ==
    /\ \E present \in SUBSET ArticlePaths : files = InitFiles(present)
    /\ clock = 0
    /\ \E order \in WalkOrders(files, ARTICLE_DIR, ENABLE_NESTED_CATEGORIES) :
          store = new(files, ARTICLE_DIR, ENABLE_NESTED_CATEGORIES, order).store
    /\ \E order \in WalkOrders(files, NOTES_DIR, TRUE) :
          note_store = new(files, NOTES_DIR, TRUE, order).store
    /\ ret = FALSE
    /\ quiet = 0
    /\ hpc = "idle"
    /\ hreq = NoRequest
    /\ tokens = [r \in Roots |-> 0]
    /\ wpc = [r \in Roots |-> "idle"]
    /\ wloc = [r \in Roots |-> NoLocals]
    /\ index = <<>>
    /\ index_queue = <<>>
    /\ jobs_sent = 0
    /\ NoGetRunning
    /\ NoSecondCreate
    /\ NoSearches
    /\ NoUpdateRunning
    /\ WorkerAwaits
    /\ NoResponses
    /\ NoWriterOpen
    /\ ShippedBuild
    /\ NoCreateRunning
    /\ NoSaveRunning

\* --------------------------------------------------------- the filesystem
\* an editor (or a handler) writes a file: created or overwritten, mtime advances
WriteFile(p, c) ==
    /\ clock < MaxClock
    /\ clock' = clock + 1
    /\ files' = [files EXCEPT ![p] = FileOf(c, clock + 1)]

DeleteFile(p) ==
    /\ clock < MaxClock
    /\ files[p].exists
    /\ clock' = clock + 1
    /\ files' = [files EXCEPT ![p] = NoFile]

EditArticleFile ==
    /\ \E p \in ArticlePaths, c \in Contents : WriteFile(p, c)
    /\ quiet' = 0
    /\ UNCHANGED <<store, note_store, ret, hpc, hreq, watchVars, indexerVars, versionVars, createVars, buildVars, writerVars, cacheVars, workerVars, updateVars, statsVars, secondVars, getVars>>

RemoveArticleFile ==
    /\ \E p \in ArticlePaths : DeleteFile(p)
    /\ quiet' = 0
    /\ UNCHANGED <<store, note_store, ret, hpc, hreq, watchVars, indexerVars, versionVars, createVars, buildVars, writerVars, cacheVars, workerVars, updateVars, statsVars, secondVars, getVars>>

\* store.write().await.incremental_update(ARTICLE_DIR, ENABLE_NESTED_CATEGORIES)
IncrementalUpdate ==
    /\ \E order \in ScanOrders(store, files, ARTICLE_DIR, ENABLE_NESTED_CATEGORIES) :
          LET r == incremental_update(store, files, ARTICLE_DIR,
                                      ENABLE_NESTED_CATEGORIES, order)
          IN /\ store' = r.store
             /\ ret' = r.ret
    /\ quiet' = IF quiet < 2 THEN quiet + 1 ELSE 2
    /\ UNCHANGED <<files, clock, note_store, hpc, hreq, watchVars, indexerVars, versionVars, createVars, buildVars, writerVars, cacheVars, workerVars, updateVars, statsVars, secondVars, getVars>>

\* ------------------------------------------- a root with a readme file
\* the files of the articles root in this specification
BuildPaths == { <<ARTICLE_DIR, "", "a">> } \cup ReadmePaths

\* ArticleStore::new over a root that may hold an article and a readme
InitBuild ==
    /\ \E present \in SUBSET BuildPaths : files = InitFiles(present)
    /\ clock = 0
    /\ \E order \in WalkOrders(files, ARTICLE_DIR, ENABLE_NESTED_CATEGORIES) :
          store = new(files, ARTICLE_DIR, ENABLE_NESTED_CATEGORIES, order).store
    /\ note_store = EmptyStore
    /\ ret = FALSE
    /\ quiet = 0
    /\ hpc = "idle"
    /\ hreq = NoRequest
    /\ tokens = [r \in Roots |-> 0]
    /\ wpc = [r \in Roots |-> "idle"]
    /\ wloc = [r \in Roots |-> NoLocals]
    /\ index = <<>>
    /\ index_queue = <<>>
    /\ jobs_sent = 0
    /\ NoGetRunning
    /\ NoSecondCreate
    /\ NoSearches
    /\ NoUpdateRunning
    /\ WorkerAwaits
    /\ NoResponses
    /\ NoWriterOpen
    /\ ShippedBuild
    /\ NoCreateRunning
    /\ NoSaveRunning

EditRootFile ==
    /\ \E p \in BuildPaths, c \in Contents : WriteFile(p, c)
    /\ quiet' = 0
    /\ UNCHANGED <<store, note_store, ret, hpc, hreq, watchVars, indexerVars, versionVars, createVars, buildVars, writerVars, cacheVars, workerVars, updateVars, statsVars, secondVars, getVars>>

RemoveRootFile ==
    /\ \E p \in BuildPaths : DeleteFile(p)
    /\ quiet' = 0
    /\ UNCHANGED <<store, note_store, ret, hpc, hreq, watchVars, indexerVars, versionVars, createVars, buildVars, writerVars, cacheVars, workerVars, updateVars, statsVars, secondVars, getVars>>

NextBuild ==
    \/ EditRootFile
    \/ RemoveRootFile
    \/ IncrementalUpdate

SpecBuild == InitBuild /\ [][NextBuild]_vars

\* ------------------------- incremental_update, change by change
\* the files of the articles root in this specification: no two share a stem
LoopPaths == { <<ARTICLE_DIR, "", "a">>, <<ARTICLE_DIR, "", "b">> }

\* ArticleStore::new over the root, which holds no readme file
InitLoop ==
    /\ InitBuild
    /\ \A p \in ReadmePaths : ~files[p].exists

EditLoopFile ==
    /\ \E p \in LoopPaths, c \in Contents : WriteFile(p, c)
    /\ quiet' = 0
    /\ UNCHANGED <<store, note_store, ret, hpc, hreq, watchVars, indexerVars, versionVars, createVars, buildVars, writerVars, cacheVars, workerVars, updateVars, statsVars, secondVars, getVars>>

RemoveLoopFile ==
    /\ \E p \in LoopPaths : DeleteFile(p)
    /\ quiet' = 0
    /\ UNCHANGED <<store, note_store, ret, hpc, hreq, watchVars, indexerVars, versionVars, createVars, buildVars, writerVars, cacheVars, workerVars, updateVars, statsVars, secondVars, getVars>>

\* incremental_update: detect_file_changes; no change returns Ok(false)
UpdateDetect ==
    /\ upc = "idle"
    /\ \E order \in ScanOrders(store, files, ARTICLE_DIR, ENABLE_NESTED_CATEGORIES) :
          LET changes == detect_file_changes(store, files, ARTICLE_DIR,
                                             ENABLE_NESTED_CATEGORIES, order)
          IN IF changes = <<>>
             THEN /\ ret' = FALSE
                  /\ quiet' = IF quiet < 2 THEN quiet + 1 ELSE 2
                  /\ UNCHANGED updateVars
             ELSE /\ upc' = "loop"
                  /\ uloc' = [todo |-> changes, articles_changed |-> FALSE,
                              applied |-> 0, before |-> store]
                  /\ UNCHANGED <<ret, quiet>>
    /\ UNCHANGED <<files, clock, store, note_store, hpc, hreq, watchVars, indexerVars, versionVars, createVars, buildVars, writerVars, cacheVars, workerVars, statsVars, secondVars, getVars>>

\* incremental_update: one turn of the loop over the changes
UpdateApplyOne ==
    /\ upc = "loop"
    /\ uloc.todo # <<>>
    /\ LET applied == apply_changes([store |-> store,
                                     articles_changed |-> uloc.articles_changed],
                                    files, <<Head(uloc.todo)>>, ENABLE_NESTED_CATEGORIES)
       IN /\ store' = applied.store
          /\ uloc' = [uloc EXCEPT !.todo = Tail(@),
                                  !.articles_changed = applied.articles_changed,
                                  !.applied = @ + 1]
    /\ UNCHANGED <<files, clock, note_store, ret, quiet, hpc, hreq, watchVars, indexerVars, versionVars, createVars, buildVars, writerVars, cacheVars, workerVars, upc, statsVars, secondVars, getVars>>

\* incremental_update: after the loop, rebuild_indexes and update_file_cache when
\* an entry changed; the value returned
UpdateFinish ==
    /\ upc = "loop"
    /\ uloc.todo = <<>>
    /\ store' = IF uloc.articles_changed
                THEN update_file_cache(rebuild_indexes(store), files, ARTICLE_DIR,
                                       ENABLE_NESTED_CATEGORIES)
                ELSE store
    /\ ret' = uloc.articles_changed
    /\ quiet' = IF quiet < 2 THEN quiet + 1 ELSE 2
    /\ upc' = "idle"
    /\ uloc' = NoUpdate
    /\ UNCHANGED <<files, clock, note_store, hpc, hreq, watchVars, indexerVars, versionVars, createVars, buildVars, writerVars, cacheVars, workerVars, statsVars, secondVars, getVars>>

\* the call is abandoned inside the loop, after one change at least and before
\* the last: the store keeps what the loop has done to it
UpdateAbort ==
    /\ upc = "loop"
    /\ uloc.applied >= 1
    /\ uloc.todo # <<>>
    /\ upc' = "idle"
    /\ uloc' = NoUpdate
    /\ UNCHANGED <<files, clock, store, note_store, ret, quiet, hpc, hreq, watchVars, indexerVars, versionVars, createVars, buildVars, writerVars, cacheVars, workerVars, statsVars, secondVars, getVars>>

NextLoop ==
    \/ EditLoopFile
    \/ RemoveLoopFile
    \/ UpdateDetect
    \/ UpdateApplyOne
    \/ UpdateFinish
    \/ UpdateAbort

SpecLoop == InitLoop /\ [][NextLoop]_vars

\* ------------------------------------------------ handlers::update_article
\* the bodies of PUT /api/articles/{slug}: a new title and body, the category
\* kept or set; tags, description and draft are left out of the request
Payloads ==
    { [title |-> "u", content |-> "bu", category |-> cat] : cat \in {None, "c"} }

\* where update_article writes the entry: ARTICLE_DIR/<category>/<slug>.md
article_file_path(slug, category) ==
    <<ARTICLE_DIR, IF category # None THEN category ELSE "", slug>>

\* the metadata update_article builds from the request and the existing entry
updated_metadata(existing, payload) ==
    [title |-> payload.title,
     date |-> existing.metadata.date,
     draft |-> existing.metadata.draft,
     tags |-> existing.metadata.tags,
     category |-> IF payload.category # None THEN payload.category
                  ELSE existing.metadata.category]

\* write_article_to_file: the front matter serialised from the metadata (the
\* category line only when there is a category), then the body
written_content(metadata, content) ==
    [ok |-> TRUE, title |-> metadata.title, date |-> metadata.date,
     draft |-> metadata.draft, tags |-> metadata.tags,
     category |-> metadata.category, body |-> content]

\* the read of the existing entry under the read lock; not-found ends the request
UpdateArticleRead ==
    /\ hpc = "idle"
    /\ \E slug \in {"a", "b"}, payload \in Payloads :
          LET existing == get_by_slug(store, slug)
          IN /\ existing # <<>>
             /\ LET metadata == updated_metadata(existing[1], payload)
                    file_path == article_file_path(slug, metadata.category)
                IN /\ file_path \in ArticlePaths
                   /\ hreq' = [slug |-> slug, metadata |-> metadata,
                               content |-> payload.content, file_path |-> file_path]
    /\ hpc' = "write"
    /\ UNCHANGED <<files, clock, store, note_store, ret, quiet, watchVars, indexerVars, versionVars, createVars, buildVars, writerVars, cacheVars, workerVars, updateVars, statsVars, secondVars, getVars>>

\* write_article_to_file
UpdateArticleWrite ==
    /\ hpc = "write"
    /\ WriteFile(hreq.file_path, written_content(hreq.metadata, hreq.content))
    /\ hpc' = "update"
    /\ quiet' = 0
    /\ UNCHANGED <<store, note_store, ret, hreq, watchVars, indexerVars, versionVars, createVars, buildVars, writerVars, cacheVars, workerVars, updateVars, statsVars, secondVars, getVars>>

\* store.write().await.update_single_article(file_path, ..); an error ends the
\* request with the entry as it was
UpdateArticleStore ==
    /\ hpc = "update"
    /\ LET u == update_single_article(store, files, hreq.file_path,
                                       ENABLE_NESTED_CATEGORIES)
       IN /\ store' = u.store
          /\ cache' = IF u.ok THEN invalidate_all(cache) ELSE cache
    /\ hpc' = "idle"
    /\ hreq' = NoRequest
    /\ quiet' = 0
    /\ UNCHANGED <<files, clock, note_store, ret, watchVars, indexerVars, versionVars, createVars, buildVars, writerVars, workerVars, updateVars, statsVars, secondVars, getVars>>

\* the catalog and its files
Next ==
    \/ EditArticleFile
    \/ RemoveArticleFile
    \/ IncrementalUpdate

Spec == Init /\ [][Next]_vars

\* --------------------------- parseable files, every change followed by an update
\* a writer that waits for incremental_update after each change and writes
\* front matters that parse
EditParseable ==
    /\ quiet >= 1
    /\ \E p \in ArticlePaths, c \in GoodContents : WriteFile(p, c)
    /\ quiet' = 0
    /\ UNCHANGED <<store, note_store, ret, hpc, hreq, watchVars, indexerVars, versionVars, createVars, buildVars, writerVars, cacheVars, workerVars, updateVars, statsVars, secondVars, getVars>>

RemoveFollowed ==
    /\ quiet >= 1
    /\ \E p \in ArticlePaths : DeleteFile(p)
    /\ quiet' = 0
    /\ UNCHANGED <<store, note_store, ret, hpc, hreq, watchVars, indexerVars, versionVars, createVars, buildVars, writerVars, cacheVars, workerVars, updateVars, statsVars, secondVars, getVars>>

NextAgree ==
    \/ EditParseable
    \/ RemoveFollowed
    \/ IncrementalUpdate

SpecAgree == Init /\ [][NextAgree]_vars

\* the catalog, its files and the update_article handler
NextHandlers ==
    \/ EditArticleFile
    \/ RemoveArticleFile
    \/ IncrementalUpdate
    \/ UpdateArticleRead
    \/ UpdateArticleWrite
    \/ UpdateArticleStore

SpecHandlers == Init /\ [][NextHandlers]_vars

\* ------------------------------------------------------- SearchService
\* a slug of the index is kept as its "/"-separated segments

\* Article::slug_with_category: "<category>/<slug>", the bare slug without one
slug_with_category(article) ==
    IF article.metadata.category # None
    THEN <<article.metadata.category, article.slug>>
    ELSE <<article.slug>>

\* the slug under which an entry of the root is indexed: format!("notes/{}", ..)
\* for a note, the slug itself for an article
index_slug(root, article) ==
    IF root = NOTES_DIR THEN <<"notes">> \o slug_with_category(article)
    ELSE <<article.slug>>

\* the doc!(..) of an ArticleContent
doc_of(ac) ==
    [slug |-> ac.slug, title |-> ac.metadata.title, content |-> ac.content,
     tags |-> ac.metadata.tags,
     category |-> IF ac.metadata.category # None THEN ac.metadata.category ELSE ""]

\* IndexWriter::delete_term on the slug field
delete_term(idx, slug) == SelectSeq(idx, LAMBDA d : d.slug # slug)

RECURSIVE add_documents(_, _)
\* the loop that adds a document for every article that is not a draft
add_documents(idx, articles) ==
    IF articles = <<>> THEN idx
    ELSE add_documents(IF Head(articles).metadata.draft THEN idx
                       ELSE Append(idx, doc_of(Head(articles))),
                       Tail(articles))

\* SearchService::index_articles
index_articles(idx, articles) == add_documents(<<>>, articles)

\* a plausible slip: the new document is added without the delete by term
index_article_no_delete(idx, article) == add_documents(idx, <<article>>)

\* SearchService::index_article
index_article(idx, article) == add_documents(delete_term(idx, article.slug), <<article>>)

\* SearchService::remove_article
remove_article(idx, slug) == delete_term(idx, slug)

RECURSIVE delete_terms(_, _)
delete_terms(idx, slugs) ==
    IF slugs = <<>> THEN idx
    ELSE delete_terms(delete_term(idx, Head(slugs)), Tail(slugs))

\* SearchService::apply_batch
apply_batch(idx, to_index, to_remove) ==
    add_documents(delete_terms(idx, to_remove), to_index)

\* SearchService::search: the slugs of the documents in which the query parser's
\* fields (title, content, tags) hold the term, one hit for each document
search(idx, term) ==
    LET found == SelectSeq(idx, LAMBDA d : term = d.title \/ term = d.content
                                           \/ term \in d.tags)
    IN [i \in 1..Len(found) |-> found[i].slug]

\* ArticleStore::load_content_for: the cached body, else the body read from disk
load_content_for(s, fs, article) ==
    IF article.file_path \in DOMAIN s.content_cache
    THEN [ok |-> TRUE, content |-> s.content_cache[article.file_path]]
    ELSE IF fs[article.file_path].exists /\ fs[article.file_path].content.ok
    THEN [ok |-> TRUE, content |-> fs[article.file_path].content.body]
    ELSE [ok |-> FALSE, content |-> None]

\* the store after load_content_for: a body read from disk is cached
content_cached(s, fs, article) ==
    LET l == load_content_for(s, fs, article)
    IN IF l.ok THEN [s EXCEPT !.content_cache = MapPut(@, article.file_path, l.content)]
       ELSE s

RECURSIVE load_full(_, _, _, _)
load_full(s, fs, root, todo) ==
    IF todo = <<>> THEN [loaded |-> <<>>, store |-> s]
    ELSE LET article == Head(todo)
             l == load_content_for(s, fs, article)
             rest == load_full(content_cached(s, fs, article), fs, root, Tail(todo))
         IN IF l.ok
            THEN [loaded |-> << [slug |-> index_slug(root, article),
                                 metadata |-> article.metadata,
                                 content |-> l.content] >> \o rest.loaded,
                  store |-> rest.store]
            ELSE rest

\* a snapshot that does not skip the tombstones
load_full_articles_all(s, fs, root) == load_full(s, fs, root, s.articles)

\* ArticleStore::load_full_articles, with the slugs create_app_state gives them
load_full_articles(s, fs, root) ==
    load_full(s, fs, root, SelectSeq(s.articles, LAMBDA a : ~a.deleted))

\* ------------------------------ a longer history of two files
MaxEdits == 4

\* the file operations of this specification: as WriteFile and DeleteFile, up
\* to MaxEdits of them
EditFileLong ==
    /\ clock < MaxEdits
    /\ \E p \in LoopPaths, c \in Contents :
          files' = [files EXCEPT ![p] = FileOf(c, clock + 1)]
    /\ clock' = clock + 1
    /\ quiet' = 0
    /\ UNCHANGED <<store, note_store, ret, hpc, hreq, watchVars, indexerVars, versionVars, createVars, buildVars, writerVars, cacheVars, workerVars, updateVars, statsVars, secondVars, getVars>>

RemoveFileLong ==
    /\ clock < MaxEdits
    /\ \E p \in LoopPaths :
          /\ files[p].exists
          /\ files' = [files EXCEPT ![p] = NoFile]
    /\ clock' = clock + 1
    /\ quiet' = 0
    /\ UNCHANGED <<store, note_store, ret, hpc, hreq, watchVars, indexerVars, versionVars, createVars, buildVars, writerVars, cacheVars, workerVars, updateVars, statsVars, secondVars, getVars>>

NextLong ==
    \/ EditFileLong
    \/ RemoveFileLong
    \/ IncrementalUpdate

SpecLong == InitLoop /\ [][NextLong]_vars

\* ------------------------------------------------- readers of bodies
\* a reader holding the read lock loads the body of a live entry, which caches it
LoadContent ==
    /\ \E i \in 1..Len(store.articles) :
          /\ ~store.articles[i].deleted
          /\ load_content_for(store, files, store.articles[i]).ok
          /\ store' = content_cached(store, files, store.articles[i])
    /\ UNCHANGED <<files, clock, note_store, ret, quiet, hpc, hreq, watchVars, indexerVars, versionVars, createVars, buildVars, writerVars, cacheVars, workerVars, updateVars, statsVars, secondVars, getVars>>

\* the catalog, two files of its root, incremental updates and readers of bodies
NextBodies ==
    \/ EditLoopFile
    \/ RemoveLoopFile
    \/ IncrementalUpdate
    \/ LoadContent

SpecBodies == InitLoop /\ [][NextBodies]_vars

\* ------------------------------------------------- the file watchers
StoreOf(root) == IF root = ARTICLE_DIR THEN store ELSE note_store

\* the layout the watcher of the root passes on: the build's for the articles,
\* nested for the notes
NestedOf(root) == IF root = ARTICLE_DIR THEN layout_nested ELSE TRUE

\* *store_guard = s for the store of the root
SetStore(root, s) ==
    IF root = ARTICLE_DIR THEN store' = s /\ UNCHANGED note_store
    ELSE note_store' = s /\ UNCHANGED store

\* the files present when the server starts with its watchers
WatchedAtStart ==
    { <<ARTICLE_DIR, "", "a">>, <<ARTICLE_DIR, "", "b">>, <<NOTES_DIR, "k", "a">> }

\* create_app_state with enable_full_text_search: both stores are built, their
\* bodies loaded and indexed; start_file_watcher then spawns the two watchers
InitWatch ==
    /\ \E present \in SUBSET WatchedAtStart : files = InitFiles(present)
    /\ clock = 0
    /\ \E ao \in WalkOrders(files, ARTICLE_DIR, ENABLE_NESTED_CATEGORIES),
          no \in WalkOrders(files, NOTES_DIR, TRUE) :
          LET all == load_full_articles(
                         new(files, ARTICLE_DIR, ENABLE_NESTED_CATEGORIES, ao).store,
                         files, ARTICLE_DIR)
              notes == load_full_articles(new(files, NOTES_DIR, TRUE, no).store,
                                          files, NOTES_DIR)
          IN /\ store = all.store
             /\ note_store = notes.store
             /\ index = index_articles(<<>>, all.loaded \o notes.loaded)
    /\ ret = FALSE
    /\ quiet = 0
    /\ hpc = "idle"
    /\ hreq = NoRequest
    /\ tokens = [r \in Roots |-> 0]
    /\ wpc = [r \in Roots |-> "idle"]
    /\ wloc = [r \in Roots |-> NoLocals]
    /\ index_queue = <<>>
    /\ jobs_sent = 0
    /\ NoGetRunning
    /\ NoSecondCreate
    /\ NoSearches
    /\ NoUpdateRunning
    /\ WorkerAwaits
    /\ NoResponses
    /\ NoWriterOpen
    /\ ShippedBuild
    /\ NoCreateRunning
    /\ NoSaveRunning

\* the notify callback: a create, modify or remove event below the root sends
\* one token to the root's watcher
Notify(root) == tokens' = [tokens EXCEPT ![root] = @ + 1]

\* an editor writes a file below a watched root
WatchedWrite ==
    /\ \E p \in AllPaths, c \in Contents : WriteFile(p, c) /\ Notify(p[1])
    /\ UNCHANGED <<store, note_store, ret, quiet, hpc, hreq, wpc, wloc, index, indexerVars, versionVars, createVars, buildVars, writerVars, cacheVars, workerVars, updateVars, statsVars, secondVars, getVars>>

\* an editor removes a file below a watched root
WatchedRemove ==
    /\ \E p \in AllPaths : DeleteFile(p) /\ Notify(p[1])
    /\ UNCHANGED <<store, note_store, ret, quiet, hpc, hreq, wpc, wloc, index, indexerVars, versionVars, createVars, buildVars, writerVars, cacheVars, workerVars, updateVars, statsVars, secondVars, getVars>>

\* rx.recv().await, then the 500 ms sleep
WatcherRecv(root) ==
    /\ wpc[root] = "idle"
    /\ tokens[root] > 0
    /\ tokens' = [tokens EXCEPT ![root] = @ - 1]
    /\ wpc' = [wpc EXCEPT ![root] = "detect"]
    /\ UNCHANGED <<files, clock, store, note_store, ret, quiet, hpc, hreq, wloc, index, indexerVars, versionVars, createVars, buildVars, writerVars, cacheVars, workerVars, updateVars, statsVars, secondVars, getVars>>

RECURSIVE removed_map_of(_, _, _)
\* the slug under which each Removed path is indexed, looked up before the update
removed_map_of(s, root, changes) ==
    IF changes = <<>> THEN EmptyMap
    ELSE LET change == Head(changes)
             rest == removed_map_of(s, root, Tail(changes))
             q == query(s, [kind |-> "path", file_path |-> change.path])
         IN IF change.change_type = Removed /\ q # <<>>
            THEN MapPut(rest, change.path, index_slug(root, q[1]))
            ELSE rest

\* collect_all_files returns Err: the layout is flat and fs::read_dir of the
\* root fails (the recursive walk drops its errors and never fails)
ListFails(root) == ~NestedOf(root) /\ ~readable

\* the write guard of the root's store is held by the root's watcher
WriteLocked(root) == wpc[root] \notin {"idle", "detect"}

\* the write lock is taken; detect_file_changes and the removed_map. An Err of
\* detect_file_changes ends the cycle
WatcherDetect(root) ==
    /\ wpc[root] = "detect"
    /\ \E order \in ScanOrders(StoreOf(root), files, root, NestedOf(root)) :
          LET changes == detect_file_changes(StoreOf(root), files, root,
                                             NestedOf(root), order)
          IN IF ListFails(root) \/ changes = <<>>
             THEN /\ wpc' = [wpc EXCEPT ![root] = "idle"]
                  /\ wloc' = [wloc EXCEPT ![root] = NoLocals]
             ELSE /\ wpc' = [wpc EXCEPT ![root] = "update"]
                  /\ wloc' = [wloc EXCEPT ![root] =
                                [changes |-> changes,
                                 removed_map |-> removed_map_of(StoreOf(root), root, changes),
                                 inner |-> <<>>,
                                 before |-> StoreOf(root)]]
    /\ UNCHANGED <<files, clock, store, note_store, ret, quiet, hpc, hreq, tokens, index, indexerVars, versionVars, createVars, buildVars, writerVars, cacheVars, workerVars, updateVars, statsVars, secondVars, getVars>>

\* incremental_update: its own detect_file_changes; no change returns Ok(false),
\* an Err of detect_file_changes is returned to the watcher
WatcherUpdate(root) ==
    /\ wpc[root] = "update"
    /\ \E order \in ScanOrders(StoreOf(root), files, root, NestedOf(root)) :
          LET changes == detect_file_changes(StoreOf(root), files, root,
                                             NestedOf(root), order)
          IN IF ListFails(root)
             THEN /\ wpc' = [wpc EXCEPT ![root] = "fallback"]
                  /\ wloc' = [wloc EXCEPT ![root].inner = <<>>]
             ELSE IF changes = <<>>
             THEN /\ wpc' = [wpc EXCEPT ![root] = "idle"]
                  /\ wloc' = [wloc EXCEPT ![root] = NoLocals]
             ELSE /\ wpc' = [wpc EXCEPT ![root] = "apply"]
                  /\ wloc' = [wloc EXCEPT ![root].inner = changes]
    /\ UNCHANGED <<files, clock, store, note_store, ret, quiet, hpc, hreq, tokens, index, indexerVars, versionVars, createVars, buildVars, writerVars, cacheVars, workerVars, updateVars, statsVars, secondVars, getVars>>

\* incremental_update: the loop over the changes; nothing applied returns Ok(false)
WatcherApply(root) ==
    /\ wpc[root] = "apply"
    /\ LET applied == apply_changes([store |-> StoreOf(root), articles_changed |-> FALSE],
                                    files, wloc[root].inner, NestedOf(root))
       IN /\ SetStore(root, applied.store)
          /\ IF applied.articles_changed
             THEN /\ wpc' = [wpc EXCEPT ![root] = "refresh"]
                  /\ wloc' = [wloc EXCEPT ![root].inner = <<>>]
             ELSE /\ wpc' = [wpc EXCEPT ![root] = "idle"]
                  /\ wloc' = [wloc EXCEPT ![root] = NoLocals]
    /\ UNCHANGED <<files, clock, ret, quiet, hpc, hreq, tokens, index, indexerVars, versionVars, createVars, buildVars, writerVars, cacheVars, workerVars, updateVars, statsVars, secondVars, getVars>>

\* update_file_cache when collect_all_files returns Err: file_cache is cleared
\* and nothing else is done
update_file_cache_err(s) == [s EXCEPT !.file_cache = EmptyMap]

\* incremental_update: rebuild_indexes and update_file_cache, then Ok(true); an
\* Err of update_file_cache is returned to the watcher
WatcherRefresh(root) ==
    /\ wpc[root] = "refresh"
    /\ IF ListFails(root)
       THEN /\ SetStore(root, update_file_cache_err(rebuild_indexes(StoreOf(root))))
            /\ wpc' = [wpc EXCEPT ![root] = "fallback"]
       ELSE /\ SetStore(root, update_file_cache(rebuild_indexes(StoreOf(root)), files,
                                                root, NestedOf(root)))
            /\ wpc' = [wpc EXCEPT ![root] = "index"]
    /\ UNCHANGED <<files, clock, ret, quiet, hpc, hreq, tokens, wloc, index, indexerVars, versionVars, createVars, buildVars, writerVars, cacheVars, workerVars, updateVars, statsVars, secondVars, getVars>>

RECURSIVE index_changes(_, _, _, _, _)
\* the Ok(true) arm: index_article for what an Added or Modified path now holds,
\* remove_article for the slug remembered of a Removed path
index_changes(acc, fs, root, changes, removed_map) ==
    IF changes = <<>> THEN acc
    ELSE LET change == Head(changes)
             q == query(acc.store, [kind |-> "path", file_path |-> change.path])
             next ==
                IF change.change_type \in {Added, Modified}
                THEN IF q = <<>> THEN acc
                     ELSE LET l == load_content_for(acc.store, fs, q[1])
                          IN IF ~l.ok THEN acc
                             ELSE [store |-> content_cached(acc.store, fs, q[1]),
                                   index |-> index_article(acc.index,
                                                [slug |-> index_slug(root, q[1]),
                                                 metadata |-> q[1].metadata,
                                                 content |-> l.content])]
                ELSE IF change.path \in DOMAIN removed_map
                     THEN [acc EXCEPT !.index = remove_article(@, removed_map[change.path])]
                     ELSE acc
         IN index_changes(next, fs, root, Tail(changes), removed_map)

\* the search index follows the change set; the write lock is released
WatcherIndex(root) ==
    /\ wpc[root] = "index"
    /\ LET r == index_changes([store |-> StoreOf(root), index |-> index], files, root,
                              wloc[root].changes, wloc[root].removed_map)
       IN /\ SetStore(root, r.store)
          /\ index' = r.index
    /\ wpc' = [wpc EXCEPT ![root] = "idle"]
    /\ wloc' = [wloc EXCEPT ![root] = NoLocals]
    /\ cache' = invalidate_all(cache)
    /\ UNCHANGED <<files, clock, ret, quiet, hpc, hreq, tokens, indexerVars, versionVars, createVars, buildVars, writerVars, workerVars, updateVars, statsVars, secondVars, getVars>>

watch_articles ==
    \/ WatcherRecv(ARTICLE_DIR)
    \/ WatcherDetect(ARTICLE_DIR)
    \/ WatcherUpdate(ARTICLE_DIR)
    \/ WatcherApply(ARTICLE_DIR)
    \/ WatcherRefresh(ARTICLE_DIR)
    \/ WatcherIndex(ARTICLE_DIR)

watch_notes ==
    \/ WatcherRecv(NOTES_DIR)
    \/ WatcherDetect(NOTES_DIR)
    \/ WatcherUpdate(NOTES_DIR)
    \/ WatcherApply(NOTES_DIR)
    \/ WatcherRefresh(NOTES_DIR)
    \/ WatcherIndex(NOTES_DIR)

\* the two content roots, their watchers and the search index
NextWatch ==
    \/ WatchedWrite
    \/ WatchedRemove
    \/ watch_articles
    \/ watch_notes

SpecWatch == InitWatch /\ [][NextWatch]_vars

\* ------------------------------------------------- the search statistics
\* the searches a run records
MaxSearches == 6

\* the length the ring of recent searches is cut back to (1000 in the source)
MaxRecent == 3

\* the query texts searched for
Queries == {"q1", "q2"}

\* recent.drain(0..len - MaxRecent): the oldest events leave
drain_keeps_oldest(recent) ==
    IF Len(recent) > MaxRecent THEN SubSeq(recent, 1, MaxRecent) ELSE recent

drain_oldest(recent) ==
    IF Len(recent) > MaxRecent
    THEN SubSeq(recent, Len(recent) - MaxRecent + 1, Len(recent))
    ELSE recent

\* record_search, first half: the write lock of search_stats is taken and the
\* counter of the query text goes up by one; the lock stays held
RecordStats ==
    /\ spc = "idle"
    /\ Len(recorded) < MaxSearches
    /\ \E q \in Queries :
         /\ search_stats' = MapPut(search_stats, q,
                                   (IF q \in DOMAIN search_stats THEN search_stats[q] ELSE 0) + 1)
         /\ sreq' = q
         /\ recorded' = Append(recorded, q)
    /\ spc' = "recent"
    /\ UNCHANGED <<recent_searches, files, clock, store, note_store, ret, quiet, hpc, hreq, watchVars, indexerVars, versionVars, createVars, buildVars, writerVars, cacheVars, workerVars, updateVars, secondVars, getVars>>

\* record_search, second half: the write lock of recent_searches is taken, the
\* event is pushed, the ring is cut back, and both locks are released
RecordRecent ==
    /\ spc = "recent"
    /\ recent_searches' = drain_oldest(Append(recent_searches,
                               [query |-> sreq, count |-> 1, timestamp |-> Len(recorded)]))
    /\ spc' = "idle"
    /\ sreq' = "<none>"
    /\ UNCHANGED <<search_stats, recorded, files, clock, store, note_store, ret, quiet, hpc, hreq, watchVars, indexerVars, versionVars, createVars, buildVars, writerVars, cacheVars, workerVars, updateVars, secondVars, getVars>>

record_search == RecordStats \/ RecordRecent

SpecStats == Init /\ [][record_search]_vars

\* ------------------------------------ the watcher's fallback, flat layout
\* the files a flat scan of the articles root can yield
FlatPaths == { p \in ArticlePaths : p[2] = "" }

\* the server built with ENABLE_NESTED_CATEGORIES = false: the articles are the
\* files directly in the root, and a scan of the root is one fs::read_dir
InitWatchFlat ==
    /\ \E present \in SUBSET FlatPaths : files = InitFiles(present)
    /\ clock = 0
    /\ layout_nested = FALSE
    /\ readable = TRUE
    /\ \E ao \in WalkOrders(files, ARTICLE_DIR, FALSE),
          no \in WalkOrders(files, NOTES_DIR, TRUE) :
          LET all == load_full_articles(new(files, ARTICLE_DIR, FALSE, ao).store,
                                        files, ARTICLE_DIR)
              notes == load_full_articles(new(files, NOTES_DIR, TRUE, no).store,
                                          files, NOTES_DIR)
          IN /\ store = all.store
             /\ note_store = notes.store
             /\ index = index_articles(<<>>, all.loaded \o notes.loaded)
    /\ ret = FALSE
    /\ quiet = 0
    /\ hpc = "idle"
    /\ hreq = NoRequest
    /\ tokens = [r \in Roots |-> 0]
    /\ wpc = [r \in Roots |-> "idle"]
    /\ wloc = [r \in Roots |-> NoLocals]
    /\ index_queue = <<>>
    /\ jobs_sent = 0
    /\ NoGetRunning
    /\ NoSecondCreate
    /\ NoSearches
    /\ NoUpdateRunning
    /\ WorkerAwaits
    /\ NoResponses
    /\ NoWriterOpen
    /\ NoCreateRunning
    /\ NoSaveRunning

\* the articles root stops being listable (its permissions are taken away, or
\* it is moved aside) or becomes listable again
RootAccess ==
    /\ readable' = ~readable
    /\ UNCHANGED <<files, clock, store, note_store, ret, quiet, hpc, hreq, watchVars, indexerVars, versionVars, createVars, layout_nested, writerVars, cacheVars, workerVars, updateVars, statsVars, secondVars, getVars>>

\* an editor writes or removes a file directly in the articles root
RootWrite ==
    /\ \E p \in FlatPaths, c \in Contents : WriteFile(p, c) /\ Notify(ARTICLE_DIR)
    /\ UNCHANGED <<store, note_store, ret, quiet, hpc, hreq, wpc, wloc, index, indexerVars, versionVars, createVars, buildVars, writerVars, cacheVars, workerVars, updateVars, statsVars, secondVars, getVars>>

RootRemove ==
    /\ \E p \in FlatPaths : DeleteFile(p) /\ Notify(ARTICLE_DIR)
    /\ UNCHANGED <<store, note_store, ret, quiet, hpc, hreq, wpc, wloc, index, indexerVars, versionVars, createVars, buildVars, writerVars, cacheVars, workerVars, updateVars, statsVars, secondVars, getVars>>

\* the Err arm of the watcher: ArticleStore::new; when it fails the cycle ends
\* with the store as it is, when it succeeds the store is replaced and
\* reindex_all_content is awaited with the write guard still held
WatcherFallback(root) ==
    /\ wpc[root] = "fallback"
    /\ \E order \in WalkOrders(files, root, NestedOf(root)) :
          LET built == new(files, root, NestedOf(root), order)
          IN IF ListFails(root) \/ ~built.ok
             THEN /\ UNCHANGED <<store, note_store, writerVars, cacheVars, workerVars, updateVars, statsVars, secondVars, getVars>>
                  /\ wpc' = [wpc EXCEPT ![root] = "idle"]
             ELSE /\ SetStore(root, built.store)
                  /\ wpc' = [wpc EXCEPT ![root] = "reindex"]
    /\ wloc' = [wloc EXCEPT ![root] = NoLocals]
    /\ UNCHANGED <<files, clock, ret, quiet, hpc, hreq, tokens, index, indexerVars, versionVars, createVars, buildVars, writerVars, cacheVars, workerVars, updateVars, statsVars, secondVars, getVars>>

\* watch_articles with its Err arm. reindex_all_content begins with
\* state.store.read().await, and a read guard is granted only while no write
\* guard is held; the watcher awaits it with the write guard of state.store
\* still held, so from "reindex" it has no further step
watch_articles_flat ==
    \/ watch_articles
    \/ WatcherFallback(ARTICLE_DIR)

NextWatchFlat ==
    \/ RootWrite
    \/ RootRemove
    \/ RootAccess
    \/ watch_articles_flat

SpecWatchFlat == InitWatchFlat /\ [][NextWatchFlat]_vars

\* ------------------------------------------------- the response cache
\* CacheService::call on a miss: the response the inner handler produced is
\* inserted under the key of the request
CacheResponse ==
    /\ \E k \in CacheKeys : cache' = MapPut(cache, k, list_response(store))
    /\ UNCHANGED <<files, clock, store, note_store, ret, quiet, hpc, hreq, watchVars, indexerVars, versionVars, createVars, buildVars, writerVars, workerVars, updateVars, statsVars, secondVars, getVars>>

\* the flat articles root, its watcher and the readers that fill the cache
NextCacheFlat ==
    \/ NextWatchFlat
    \/ CacheResponse

SpecCacheFlat == InitWatchFlat /\ [][NextCacheFlat]_vars

\* ------------------------------------------------- the indexer channel
MaxJobs == 3

JobIndex == "Index"
JobRemove == "Remove"

\* the ArticleContent values the producers send: two slugs, two revisions each,
\* published or draft
JobContents ==
    { [slug |-> <<s>>,
       metadata |-> [title |-> c.title, date |-> c.date, draft |-> d, tags |-> c.tags,
                     category |-> None],
       content |-> c.body] :
         s \in {"a", "b"}, c \in { g \in GoodContents : ~g.draft }, d \in BOOLEAN }

\* tx.send(IndexJob::Index(article_content))
SendIndex ==
    /\ jobs_sent < MaxJobs
    /\ \E ac \in JobContents :
          index_queue' = Append(index_queue, [kind |-> JobIndex, article |-> ac])
    /\ jobs_sent' = jobs_sent + 1
    /\ UNCHANGED <<files, clock, store, note_store, ret, quiet, hpc, hreq, watchVars, versionVars, createVars, buildVars, writerVars, cacheVars, workerVars, updateVars, statsVars, secondVars, getVars>>

\* the send of a Remove(slug) job
SendRemove ==
    /\ jobs_sent < MaxJobs
    /\ \E s \in {"a", "b"} :
          index_queue' = Append(index_queue, [kind |-> JobRemove, slug |-> <<s>>])
    /\ jobs_sent' = jobs_sent + 1
    /\ UNCHANGED <<files, clock, store, note_store, ret, quiet, hpc, hreq, watchVars, versionVars, createVars, buildVars, writerVars, cacheVars, workerVars, updateVars, statsVars, secondVars, getVars>>

RECURSIVE batch_upserts(_)
\* the documents of the Index jobs of a batch, in the order they were sent
batch_upserts(batch) ==
    IF batch = <<>> THEN <<>>
    ELSE IF Head(batch).kind = JobIndex
         THEN <<Head(batch).article>> \o batch_upserts(Tail(batch))
         ELSE batch_upserts(Tail(batch))

RECURSIVE batch_removes(_)
\* the slugs of the Remove jobs of a batch, in the order they were sent
batch_removes(batch) ==
    IF batch = <<>> THEN <<>>
    ELSE IF Head(batch).kind = JobRemove
         THEN <<Head(batch).slug>> \o batch_removes(Tail(batch))
         ELSE batch_removes(Tail(batch))

\* the worker: one job is awaited, the jobs already queued are drained into the
\* batch, and the batch goes to apply_batch
IndexerWorker ==
    /\ index_queue # <<>>
    /\ index' = apply_batch(index, batch_upserts(index_queue), batch_removes(index_queue))
    /\ index_queue' = <<>>
    /\ UNCHANGED <<files, clock, store, note_store, ret, quiet, hpc, hreq, tokens, wpc, wloc,
                   jobs_sent, versionVars, createVars, buildVars, writerVars, cacheVars, workerVars, updateVars, statsVars, secondVars, getVars>>

\* the producers of index jobs and the single worker
NextIndexer ==
    \/ SendIndex
    \/ SendRemove
    \/ IndexerWorker

SpecIndexer == InitWatch /\ [][NextIndexer]_vars

\* ------------------------------------------------- index_article alone
MaxDocs == 3

\* the documents a committed index may hold: one per published ArticleContent
CommittedDocs == { doc_of(ac) : ac \in { j \in JobContents : ~j.metadata.draft } }

\* an index directory opened by SearchService::new: any committed documents, a
\* slug possibly more than once (apply_batch adds without a delete by term)
InitUpsert ==
    /\ files = InitFiles({})
    /\ clock = 0
    /\ store = EmptyStore
    /\ note_store = EmptyStore
    /\ index \in UNION { [1..n -> CommittedDocs] : n \in 0..MaxDocs }
    /\ ret = FALSE
    /\ quiet = 0
    /\ hpc = "idle"
    /\ hreq = NoRequest
    /\ tokens = [r \in Roots |-> 0]
    /\ wpc = [r \in Roots |-> "idle"]
    /\ wloc = [r \in Roots |-> NoLocals]
    /\ index_queue = <<>>
    /\ jobs_sent = 0
    /\ NoGetRunning
    /\ NoSecondCreate
    /\ NoSearches
    /\ NoUpdateRunning
    /\ WorkerAwaits
    /\ NoResponses
    /\ NoWriterOpen
    /\ ShippedBuild
    /\ NoCreateRunning
    /\ NoSaveRunning

\* search_service.index_article(&article_content, heap) returning Ok
IndexArticle(ac) ==
    /\ index' = index_article(index, ac)
    /\ UNCHANGED <<files, clock, store, note_store, ret, quiet, hpc, hreq, tokens, wpc, wloc, indexerVars, versionVars, createVars, buildVars, writerVars, cacheVars, workerVars, updateVars, statsVars, secondVars, getVars>>

NextUpsert == \E ac \in JobContents : IndexArticle(ac)

SpecUpsert == InitUpsert /\ [][NextUpsert]_vars

\* -------------------------------------- the indexer worker, job by job
MaxQueued == 4

\* the jobs the producers of this specification send
WorkerJobs ==
    { [kind |-> JobIndex, article |-> ac] :
         ac \in { j \in JobContents : j.metadata.title = "t1" /\ ~j.metadata.draft
                                       /\ j.content = "b1" } }
    \cup { [kind |-> JobRemove, slug |-> <<"a">>] }

\* tx.send(job) on the unbounded channel
WorkerSend ==
    /\ jobs_sent < MaxQueued
    /\ \E job \in WorkerJobs :
          /\ index_queue' = Append(index_queue, job)
          /\ sent_log' = Append(sent_log, job)
    /\ jobs_sent' = jobs_sent + 1
    /\ UNCHANGED <<files, clock, store, note_store, ret, quiet, hpc, hreq, watchVars, versionVars, createVars, buildVars, writerVars, cacheVars, worker_pc, worker_batch, applied_log, updateVars, statsVars, secondVars, getVars>>

\* rx.recv().await returns a job: it opens the batch
WorkerRecv ==
    /\ worker_pc = "recv"
    /\ index_queue # <<>>
    /\ worker_batch' = <<Head(index_queue)>>
    /\ index_queue' = Tail(index_queue)
    /\ worker_pc' = "drain"
    /\ UNCHANGED <<files, clock, store, note_store, ret, quiet, hpc, hreq, watchVars, jobs_sent, versionVars, createVars, buildVars, writerVars, cacheVars, sent_log, applied_log, updateVars, statsVars, secondVars, getVars>>

\* a plausible slip: the drained job replaces the batch instead of joining it
WorkerDrain_overwrites ==
    /\ worker_pc = "drain"
    /\ index_queue # <<>>
    /\ worker_batch' = <<Head(index_queue)>>
    /\ index_queue' = Tail(index_queue)
    /\ UNCHANGED <<files, clock, store, note_store, ret, quiet, hpc, hreq, watchVars, jobs_sent, versionVars, createVars, buildVars, writerVars, cacheVars, worker_pc, sent_log, applied_log, updateVars, statsVars, secondVars, getVars>>

\* rx.try_recv() returns a job already queued: it joins the batch
WorkerDrain ==
    /\ worker_pc = "drain"
    /\ index_queue # <<>>
    /\ worker_batch' = Append(worker_batch, Head(index_queue))
    /\ index_queue' = Tail(index_queue)
    /\ UNCHANGED <<files, clock, store, note_store, ret, quiet, hpc, hreq, watchVars, jobs_sent, versionVars, createVars, buildVars, writerVars, cacheVars, worker_pc, sent_log, applied_log, updateVars, statsVars, secondVars, getVars>>

\* rx.try_recv() finds the channel empty: the batch goes to apply_batch
WorkerApply ==
    /\ worker_pc = "drain"
    /\ index_queue = <<>>
    /\ index' = apply_batch(index, batch_upserts(worker_batch), batch_removes(worker_batch))
    /\ applied_log' = Append(applied_log, worker_batch)
    /\ worker_batch' = <<>>
    /\ worker_pc' = "recv"
    /\ UNCHANGED <<files, clock, store, note_store, ret, quiet, hpc, hreq, tokens, wpc, wloc, index_queue, jobs_sent, versionVars, createVars, buildVars, writerVars, cacheVars, sent_log, updateVars, statsVars, secondVars, getVars>>

indexer_worker ==
    \/ WorkerRecv
    \/ WorkerDrain
    \/ WorkerApply

NextWorker ==
    \/ WorkerSend
    \/ indexer_worker

\* SearchService::new on a fresh index directory
InitWorker == InitUpsert /\ index = <<>>

\* the worker task is scheduled whenever it can run
SpecWorker == InitWorker /\ [][NextWorker]_vars /\ WF_vars(indexer_worker)

\* ------------------------------------------ index_articles step by step
MaxRebuild == 2

\* the snapshots a rebuild may be given
RebuildInputs == UNION { [1..n -> JobContents] : n \in 0..MaxRebuild }

\* self.index.writer(heap_size): the writer starts from the committed documents
open_writer(idx, articles) ==
    [open |-> TRUE, base |-> idx, docs |-> idx, todo |-> articles, cleared |-> FALSE]

\* index_writer.delete_all_documents(): staged in the writer
delete_all_documents(w) == [w EXCEPT !.docs = <<>>, !.cleared = TRUE]

\* the body of the loop: add_document for an article that is not a draft
add_document(w) ==
    [w EXCEPT !.docs = add_documents(@, <<Head(w.todo)>>), !.todo = Tail(@)]

\* a plausible slip: what the writer staged becomes visible when it is dropped
drop_writer_commits(idx, w) == w.docs

\* the writer goes out of scope on an early return: nothing staged is
\* published, and the reader still serves the last commit
drop_writer(idx, w) == idx

\* index_writer.commit() and self.reader.reload(): the staged documents become
\* the visible ones
commit_writer(idx, w) == w.docs

InitRebuild ==
    /\ files = InitFiles({})
    /\ clock = 0
    /\ store = EmptyStore
    /\ note_store = EmptyStore
    /\ index \in UNION { [1..n -> CommittedDocs] : n \in 0..MaxDocs }
    /\ ret = FALSE
    /\ quiet = 0
    /\ hpc = "idle"
    /\ hreq = NoRequest
    /\ tokens = [r \in Roots |-> 0]
    /\ wpc = [r \in Roots |-> "idle"]
    /\ wloc = [r \in Roots |-> NoLocals]
    /\ index_queue = <<>>
    /\ jobs_sent = 0
    /\ NoGetRunning
    /\ NoSecondCreate
    /\ NoSearches
    /\ NoUpdateRunning
    /\ WorkerAwaits
    /\ NoResponses
    /\ NoWriterOpen
    /\ ShippedBuild
    /\ NoCreateRunning
    /\ NoSaveRunning

RebuildUnchanged ==
    UNCHANGED <<files, clock, store, note_store, ret, quiet, hpc, hreq, tokens, wpc, wloc, indexerVars, versionVars, createVars, buildVars, cacheVars, workerVars, updateVars, statsVars, secondVars, getVars>>

\* index_articles is called with a snapshot and obtains its writer
RebuildOpen ==
    /\ ~index_writer.open
    /\ index_writer.result = "none"
    /\ \E articles \in RebuildInputs : index_writer' = open_writer(index, articles)
    /\ UNCHANGED index
    /\ RebuildUnchanged

RebuildDeleteAll ==
    /\ index_writer.open /\ ~index_writer.cleared
    /\ index_writer' = delete_all_documents(index_writer)
    /\ UNCHANGED index
    /\ RebuildUnchanged

RebuildAdd ==
    /\ index_writer.open /\ index_writer.cleared /\ index_writer.todo # <<>>
    /\ index_writer' = add_document(index_writer)
    /\ UNCHANGED index
    /\ RebuildUnchanged

\* delete_all_documents()? or add_document(doc)? returns Err: index_articles
\* returns and its writer is dropped
RebuildFail ==
    /\ index_writer.open
    /\ index' = drop_writer(index, index_writer)
    /\ index_writer' = [open |-> FALSE, result |-> "err", cleared |-> index_writer.cleared]
    /\ RebuildUnchanged

RebuildCommit ==
    /\ index_writer.open /\ index_writer.cleared /\ index_writer.todo = <<>>
    /\ index' = commit_writer(index, index_writer)
    /\ index_writer' = [open |-> FALSE, result |-> "ok", cleared |-> TRUE]
    /\ RebuildUnchanged

NextRebuild ==
    \/ RebuildOpen
    \/ RebuildDeleteAll
    \/ RebuildAdd
    \/ RebuildFail
    \/ RebuildCommit

SpecRebuild == InitRebuild /\ [][NextRebuild]_vars

\* ---------------------------------------------------------- save_version
\* a plausible slip: the file is opened with create and truncate
open_truncate(dir, name) ==
    [ok |-> TRUE, dir |-> [dir EXCEPT ![name] = EmptyVersion]]

\* OpenOptions::new().write(true).create_new(true).open(..): the file is created
\* empty, or the open fails with AlreadyExists
open_create_new(dir, name) ==
    IF dir[name].exists THEN [ok |-> FALSE, dir |-> dir]
    ELSE [ok |-> TRUE, dir |-> [dir EXCEPT ![name] = EmptyVersion]]

\* a plausible slip: the retry counts down
next_candidate_down(candidate) == IF candidate > 0 THEN candidate - 1 ELSE candidate + 1

\* candidate += 1
next_candidate(candidate) == candidate + 1

\* file.write_all(content.as_bytes()) on the handle of the file just created
write_all(dir, name, content) == [dir EXCEPT ![name].text = content]

\* the version directories when the server starts: any files of earlier runs
InitVersions ==
    /\ files = InitFiles({ <<ARTICLE_DIR, "", "a">> })
    /\ clock = 0
    /\ store = new(files, ARTICLE_DIR, ENABLE_NESTED_CATEGORIES,
                   << <<ARTICLE_DIR, "", "a">> >>).store
    /\ note_store = EmptyStore
    /\ ret = FALSE
    /\ quiet = 0
    /\ hpc = "idle"
    /\ hreq = NoRequest
    /\ tokens = [r \in Roots |-> 0]
    /\ wpc = [r \in Roots |-> "idle"]
    /\ wloc = [r \in Roots |-> NoLocals]
    /\ index = <<>>
    /\ index_queue = <<>>
    /\ jobs_sent = 0
    /\ NoGetRunning
    /\ NoSecondCreate
    /\ NoSearches
    /\ NoUpdateRunning
    /\ WorkerAwaits
    /\ NoResponses
    /\ NoWriterOpen
    /\ ShippedBuild
    /\ NoCreateRunning
    /\ \E old \in SUBSET VersionNames :
          version_files = [s \in VersionSlugs |->
                              [n \in VersionNames |->
                                  IF s = "a" /\ n \in old THEN OldVersion ELSE NoVersion]]
    /\ now = 0
    /\ vpc = [c \in Callers |-> "idle"]
    /\ vloc = [c \in Callers |-> NoSave]
    /\ NoCreateRunning

\* a millisecond passes
Tick ==
    /\ now < MaxNow
    /\ now' = now + 1
    /\ UNCHANGED <<files, clock, store, note_store, ret, quiet, hpc, hreq, watchVars,
                   indexerVars, version_files, vpc, vloc, createVars, buildVars, writerVars, cacheVars, workerVars, updateVars, statsVars, secondVars, getVars>>

\* the names that save_version calls have created in the slug's directory
SavedNames(slug) == { n \in VersionNames : /\ version_files[slug][n].exists
                                           /\ version_files[slug][n].saved }

\* save_version(article) up to the loop: the directory, the timestamp and the
\* article file's text; a file that cannot be read ends the call with the error
SaveStart(c) ==
    /\ vpc[c] = "idle"
    /\ \E article \in { store.articles[i] : i \in 1..Len(store.articles) } :
          /\ ~article.deleted
          /\ IF files[article.file_path].exists
             THEN /\ vpc' = [vpc EXCEPT ![c] = "open"]
                  /\ vloc' = [vloc EXCEPT ![c] =
                                [slug |-> article.slug,
                                 version |-> now,
                                 content |-> <<files[article.file_path].content>>,
                                 candidate |-> now,
                                 before |-> SavedNames(article.slug)]]
             ELSE UNCHANGED <<vpc, vloc>>
    /\ UNCHANGED <<files, clock, store, note_store, ret, quiet, hpc, hreq, watchVars,
                   indexerVars, version_files, now, createVars, buildVars, writerVars, cacheVars, workerVars, updateVars, statsVars, secondVars, getVars>>

\* one turn of the loop: the candidate is created, or it exists and the next
\* candidate is tried
SaveOpen(c) ==
    /\ vpc[c] = "open"
    /\ LET o == open_create_new(version_files[vloc[c].slug], vloc[c].candidate)
       IN IF o.ok
          THEN /\ version_files' = [version_files EXCEPT ![vloc[c].slug] = o.dir]
               /\ vpc' = [vpc EXCEPT ![c] = "write"]
               /\ UNCHANGED vloc
          ELSE /\ vloc[c].candidate < MaxVersion
               /\ vloc' = [vloc EXCEPT ![c].candidate = next_candidate(@)]
               /\ UNCHANGED <<version_files, vpc, createVars, buildVars, writerVars, cacheVars, workerVars, updateVars, statsVars, secondVars, getVars>>
    /\ UNCHANGED <<files, clock, store, note_store, ret, quiet, hpc, hreq, watchVars,
                   indexerVars, now, createVars, buildVars, writerVars, cacheVars, workerVars, updateVars, statsVars, secondVars, getVars>>

\* write_all, break, Ok(())
SaveWrite(c) ==
    /\ vpc[c] = "write"
    /\ version_files' = [version_files EXCEPT ![vloc[c].slug] =
                            write_all(@, vloc[c].candidate, vloc[c].content)]
    /\ vpc' = [vpc EXCEPT ![c] = "idle"]
    /\ vloc' = [vloc EXCEPT ![c] = NoSave]
    /\ UNCHANGED <<files, clock, store, note_store, ret, quiet, hpc, hreq, watchVars,
                   indexerVars, now, createVars, buildVars, writerVars, cacheVars, workerVars, updateVars, statsVars, secondVars, getVars>>

save_version(c) ==
    \/ SaveStart(c)
    \/ SaveOpen(c)
    \/ SaveWrite(c)

\* the callers of save_version and the clock
NextVersions ==
    \/ Tick
    \/ \E c \in Callers : save_version(c)

SpecVersions == InitVersions /\ [][NextVersions]_vars

\* ------------------------------------------------ handlers::create_article
\* the titles of the requests: one that slugifies to "a", one without a letter
\* or digit, one that is blank
Titles == {"A", "!", " "}

\* slug::slugify: lower case, runs of other characters to "-", edges stripped
slugify(title) ==
    CASE title = "A" -> "a"
      [] title = "!" -> ""
      [] title = " " -> ""

\* str::trim().is_empty()
trim_is_empty(s) == s \in {"", " "}

\* the bodies of POST /api/articles; tags, description and draft are left out
CreatePayloads ==
    { [title |-> ti, content |-> co, category |-> cat] :
        ti \in Titles, co \in {"bc", " "}, cat \in {None, "c"} }

\* a plausible slip: the cap is hit one attempt early
attempts_exceeded_early(counter) == counter >= SlugAttempts

\* counter > 100
attempts_exceeded(counter) == counter > SlugAttempts

RECURSIVE save_loop(_, _, _)
\* the loop of save_version run to its end
save_loop(dir, candidate, content) ==
    LET o == open_create_new(dir, candidate)
    IN IF o.ok THEN write_all(o.dir, candidate, content)
       ELSE save_loop(dir, next_candidate(candidate), content)

\* a name at or after the timestamp is still free
CanSave(slug) == \E n \in VersionNames : n >= now /\ ~version_files[slug][n].exists

\* prepare_metadata up to the loop: the checks of title, content and base slug
CreateBegin ==
    /\ cpc = "idle"
    /\ \E payload \in CreatePayloads :
          IF \/ trim_is_empty(payload.title)
             \/ trim_is_empty(payload.content)
             \/ slugify(payload.title) = ""
          THEN /\ cres' = [status |-> "bad_request", slug |-> None,
                            message |-> IF slugify(payload.title) = ""
                                           /\ ~trim_is_empty(payload.title)
                                           /\ ~trim_is_empty(payload.content)
                                        THEN "Invalid title for slug generation"
                                        ELSE "Title and content cannot be empty"]
               /\ UNCHANGED <<cpc, creq, buildVars, writerVars, cacheVars, workerVars, updateVars, statsVars, secondVars, getVars>>
          ELSE /\ cpc' = "probe"
               /\ creq' = [title |-> payload.title, content |-> payload.content,
                           category |-> payload.category,
                           base_slug |-> slugify(payload.title),
                           slug_candidate |-> slugify(payload.title),
                           counter |-> 1]
               /\ cres' = NoResponse
    /\ UNCHANGED <<files, clock, store, note_store, ret, quiet, hpc, hreq, watchVars,
                   indexerVars, versionVars, buildVars, writerVars, cacheVars, workerVars, updateVars, statsVars, secondVars, getVars>>

\* the metadata and the file path prepare_metadata returns with the slug
created_metadata(req) ==
    [title |-> req.title, date |-> now, draft |-> FALSE, tags |-> {},
     category |-> req.category]

\* one turn of prepare_metadata's loop under the read lock: a free candidate
\* is the slug, a taken one gives the next candidate or, past the cap, the error
CreateProbe ==
    /\ cpc = "probe"
    /\ IF get_by_slug(store, creq.slug_candidate) # <<>>
       THEN IF attempts_exceeded(creq.counter)
            THEN /\ cpc' = "idle"
                 /\ creq' = NoCreate
                 /\ cres' = [status |-> "bad_request", slug |-> None,
                              message |-> "Exceeded maximum slug generation attempts"]
            ELSE /\ creq' = [creq EXCEPT
                               !.slug_candidate = format_slug(creq.base_slug, creq.counter),
                               !.counter = @ + 1]
                 /\ UNCHANGED <<cpc, cres, buildVars, writerVars, cacheVars, workerVars, updateVars, statsVars, secondVars, getVars>>
       ELSE /\ cpc' = "write"
            /\ creq' = [title |-> creq.title, content |-> creq.content,
                        slug |-> creq.slug_candidate,
                        metadata |-> created_metadata(creq),
                        file_path |-> article_file_path(creq.slug_candidate, creq.category)]
            /\ UNCHANGED cres
    /\ UNCHANGED <<files, clock, store, note_store, ret, quiet, hpc, hreq, watchVars,
                   indexerVars, versionVars, buildVars, writerVars, cacheVars, workerVars, updateVars, statsVars, secondVars, getVars>>

\* persist_article up to the write lock: write_article_to_file, save_version
CreateWrite ==
    /\ cpc = "write"
    /\ CanSave(creq.slug)
    /\ WriteFile(creq.file_path, written_content(creq.metadata, creq.content))
    /\ version_files' = [version_files EXCEPT ![creq.slug] =
                            save_loop(@, now, <<written_content(creq.metadata, creq.content)>>)]
    /\ cpc' = "update"
    /\ quiet' = 0
    /\ UNCHANGED <<store, note_store, ret, hpc, hreq, watchVars, indexerVars,
                   now, vpc, vloc, creq, cres, buildVars, writerVars, cacheVars, workerVars, updateVars, statsVars, secondVars, getVars>>

\* persist_article's incremental_update under the write lock, then the index
\* job and the response of create_article
CreateUpdate ==
    /\ cpc = "update"
    /\ \E order \in ScanOrders(store, files, ARTICLE_DIR, ENABLE_NESTED_CATEGORIES) :
          LET r == incremental_update(store, files, ARTICLE_DIR,
                                      ENABLE_NESTED_CATEGORIES, order)
          IN /\ store' = r.store
             /\ ret' = r.ret
    /\ quiet' = IF quiet < 2 THEN quiet + 1 ELSE 2
    /\ index_queue' = Append(index_queue,
                             [kind |-> JobIndex,
                              article |-> [slug |-> <<creq.slug>>,
                                           metadata |-> creq.metadata,
                                           content |-> creq.content]])
    /\ jobs_sent' = jobs_sent + 1
    /\ cres' = [status |-> "ok", slug |-> creq.slug, message |-> "Article created"]
    /\ cpc' = "idle"
    /\ creq' = NoCreate
    /\ cache' = invalidate_all(cache)
    /\ UNCHANGED <<files, clock, note_store, hpc, hreq, watchVars, versionVars, buildVars, writerVars, workerVars, updateVars, statsVars, secondVars, getVars>>

create_article ==
    \/ CreateBegin
    \/ CreateProbe
    \/ CreateWrite
    \/ CreateUpdate

\* the catalog when the server starts: any of the files in the root whose slug
\* a create can collide with
InitCreate ==
    /\ \E present \in SUBSET { p \in CreatePaths : p[2] = "" } : files = InitFiles(present)
    /\ clock = 0
    /\ \E order \in WalkOrders(files, ARTICLE_DIR, ENABLE_NESTED_CATEGORIES) :
          store = new(files, ARTICLE_DIR, ENABLE_NESTED_CATEGORIES, order).store
    /\ note_store = EmptyStore
    /\ ret = FALSE
    /\ quiet = 0
    /\ hpc = "idle"
    /\ hreq = NoRequest
    /\ tokens = [r \in Roots |-> 0]
    /\ wpc = [r \in Roots |-> "idle"]
    /\ wloc = [r \in Roots |-> NoLocals]
    /\ index = <<>>
    /\ index_queue = <<>>
    /\ jobs_sent = 0
    /\ NoGetRunning
    /\ NoSecondCreate
    /\ NoSearches
    /\ NoUpdateRunning
    /\ WorkerAwaits
    /\ NoResponses
    /\ NoWriterOpen
    /\ ShippedBuild
    /\ NoSaveRunning
    /\ NoCreateRunning

\* create_article requests one after the other
NextCreate == create_article

SpecCreate == InitCreate /\ [][NextCreate]_vars

\* create_article requests one after the other, and the editors of the files
NextCreateEdited ==
    \/ create_article
    \/ EditArticleFile
    \/ RemoveArticleFile

SpecCreateEdited == InitCreate /\ [][NextCreateEdited]_vars

\* ------------------------------------- two create_article requests at once
\* the bodies the second request posts: the same titles, another text
SecondPayloads ==
    { [title |-> ti, content |-> co, category |-> cat] :
        ti \in Titles, co \in {"bd", " "}, cat \in {None, "c"} }

\* prepare_metadata up to the loop: the checks of title, content and base slug
SecondBegin ==
    /\ cpc2 = "idle"
    /\ \E payload \in SecondPayloads :
          IF \/ trim_is_empty(payload.title)
             \/ trim_is_empty(payload.content)
             \/ slugify(payload.title) = ""
          THEN /\ cres2' = [status |-> "bad_request", slug |-> None,
                            message |-> IF slugify(payload.title) = ""
                                           /\ ~trim_is_empty(payload.title)
                                           /\ ~trim_is_empty(payload.content)
                                        THEN "Invalid title for slug generation"
                                        ELSE "Title and content cannot be empty"]
               /\ UNCHANGED <<cpc2, creq2, buildVars, writerVars, cacheVars, workerVars, updateVars, statsVars, createVars, getVars>>
          ELSE /\ cpc2' = "probe"
               /\ creq2' = [title |-> payload.title, content |-> payload.content,
                           category |-> payload.category,
                           base_slug |-> slugify(payload.title),
                           slug_candidate |-> slugify(payload.title),
                           counter |-> 1]
               /\ cres2' = NoResponse
    /\ UNCHANGED <<files, clock, store, note_store, ret, quiet, hpc, hreq, watchVars,
                   indexerVars, versionVars, buildVars, writerVars, cacheVars, workerVars, updateVars, statsVars, createVars, getVars>>

\* one turn of prepare_metadata's loop under the read lock: a free candidate
\* is the slug, a taken one gives the next candidate or, past the cap, the error
SecondProbe ==
    /\ cpc2 = "probe"
    /\ IF get_by_slug(store, creq2.slug_candidate) # <<>>
       THEN IF attempts_exceeded(creq2.counter)
            THEN /\ cpc2' = "idle"
                 /\ creq2' = NoCreate
                 /\ cres2' = [status |-> "bad_request", slug |-> None,
                              message |-> "Exceeded maximum slug generation attempts"]
            ELSE /\ creq2' = [creq2 EXCEPT
                               !.slug_candidate = format_slug(creq2.base_slug, creq2.counter),
                               !.counter = @ + 1]
                 /\ UNCHANGED <<cpc2, cres2, buildVars, writerVars, cacheVars, workerVars, updateVars, statsVars, createVars, getVars>>
       ELSE /\ cpc2' = "write"
            /\ creq2' = [title |-> creq2.title, content |-> creq2.content,
                        slug |-> creq2.slug_candidate,
                        metadata |-> created_metadata(creq2),
                        file_path |-> article_file_path(creq2.slug_candidate, creq2.category)]
            /\ UNCHANGED cres2
    /\ UNCHANGED <<files, clock, store, note_store, ret, quiet, hpc, hreq, watchVars,
                   indexerVars, versionVars, buildVars, writerVars, cacheVars, workerVars, updateVars, statsVars, createVars, getVars>>

\* persist_article up to the write lock: write_article_to_file, save_version
SecondWrite ==
    /\ cpc2 = "write"
    /\ CanSave(creq2.slug)
    /\ WriteFile(creq2.file_path, written_content(creq2.metadata, creq2.content))
    /\ version_files' = [version_files EXCEPT ![creq2.slug] =
                            save_loop(@, now, <<written_content(creq2.metadata, creq2.content)>>)]
    /\ cpc2' = "update"
    /\ quiet' = 0
    /\ UNCHANGED <<store, note_store, ret, hpc, hreq, watchVars, indexerVars,
                   now, vpc, vloc, creq2, cres2, buildVars, writerVars, cacheVars, workerVars, updateVars, statsVars, createVars, getVars>>

\* persist_article's incremental_update under the write lock, then the index
\* job and the response of create_article
SecondUpdate ==
    /\ cpc2 = "update"
    /\ \E order \in ScanOrders(store, files, ARTICLE_DIR, ENABLE_NESTED_CATEGORIES) :
          LET r == incremental_update(store, files, ARTICLE_DIR,
                                      ENABLE_NESTED_CATEGORIES, order)
          IN /\ store' = r.store
             /\ ret' = r.ret
    /\ quiet' = IF quiet < 2 THEN quiet + 1 ELSE 2
    /\ index_queue' = Append(index_queue,
                             [kind |-> JobIndex,
                              article |-> [slug |-> <<creq2.slug>>,
                                           metadata |-> creq2.metadata,
                                           content |-> creq2.content]])
    /\ jobs_sent' = jobs_sent + 1
    /\ cres2' = [status |-> "ok", slug |-> creq2.slug, message |-> "Article created"]
    /\ cpc2' = "idle"
    /\ creq2' = NoCreate
    /\ cache' = invalidate_all(cache)
    /\ UNCHANGED <<files, clock, note_store, hpc, hreq, watchVars, versionVars, buildVars, writerVars, workerVars, updateVars, statsVars, createVars, getVars>>

second_create_article ==
    \/ SecondBegin
    \/ SecondProbe
    \/ SecondWrite
    \/ SecondUpdate

\* two tasks of the runtime serve create_article side by side; the catalog's
\* lock is held inside a probe and inside the update only
NextCreateTwo ==
    \/ create_article
    \/ second_create_article

SpecCreateTwo == InitCreate /\ [][NextCreateTwo]_vars

\* ------------------------------- a GET inside the cache layer, step by step
\* ResponseCacheService::call: cache.get finds nothing, the request goes on to
\* the inner handler
GetMiss ==
    /\ gpc = "idle"
    /\ \E k \in CacheKeys :
          /\ k \notin DOMAIN cache
          /\ gresp' = [key |-> k]
    /\ gpc' = "handler"
    /\ UNCHANGED <<gserved, cache, files, clock, store, note_store, ret, quiet, hpc, hreq, watchVars, indexerVars, versionVars, createVars, buildVars, writerVars, workerVars, updateVars, statsVars, secondVars>>

\* ResponseCacheService::call: cache.get finds a response and answers with it
GetHit ==
    /\ gpc = "idle"
    /\ \E k \in CacheKeys :
          /\ k \in DOMAIN cache
          /\ gserved' = [hit |-> TRUE, body |-> cache[k]]
    /\ UNCHANGED <<gpc, gresp, cache, files, clock, store, note_store, ret, quiet, hpc, hreq, watchVars, indexerVars, versionVars, createVars, buildVars, writerVars, workerVars, updateVars, statsVars, secondVars>>

\* get_articles_list: the response is computed under the catalog's read lock
\* and the lock is released
GetHandler ==
    /\ gpc = "handler"
    /\ gresp' = [key |-> gresp.key, body |-> list_response(store)]
    /\ gpc' = "insert"
    /\ UNCHANGED <<gserved, cache, files, clock, store, note_store, ret, quiet, hpc, hreq, watchVars, indexerVars, versionVars, createVars, buildVars, writerVars, workerVars, updateVars, statsVars, secondVars>>

\* ResponseCacheService::call: the body is collected and cache.insert stores
\* it under the key
GetInsert ==
    /\ gpc = "insert"
    /\ cache' = MapPut(cache, gresp.key, gresp.body)
    /\ gpc' = "idle"
    /\ gresp' = NoGet
    /\ UNCHANGED <<gserved, files, clock, store, note_store, ret, quiet, hpc, hreq, watchVars, indexerVars, versionVars, createVars, buildVars, writerVars, workerVars, updateVars, statsVars, secondVars>>

cached_get ==
    \/ GetMiss
    \/ GetHit
    \/ GetHandler
    \/ GetInsert

\* create_article requests and GETs of the list, side by side
NextCacheRace ==
    \/ create_article
    \/ cached_get

SpecCacheRace == InitCreate /\ [][NextCacheRace]_vars

\* ------------------------------------------------------------ the claims
MaxOffset == 2
MaxLimit == 2

\* what a caller can observe of the store: everything but the body cache
Observable(s) == <<s.articles, s.slug_map, s.tags, s.categories, s.file_cache>>

LiveAt(s, p) == \E i \in 1..Len(s.articles) :
                    s.articles[i].file_path = p /\ ~s.articles[i].deleted

TombstoneAt(s, p) == \E i \in 1..Len(s.articles) :
                         s.articles[i].file_path = p /\ s.articles[i].deleted

\* C1: for every non-deleted entry e, get_by_slug(e.slug) returns exactly e (the
\* slug index points at e's position); for every tombstoned entry get_by_slug of
\* its slug returns none.
C1_SlugIndexCoherence ==
    \A i \in 1..Len(store.articles) :
        LET e == store.articles[i]
        IN IF e.deleted
           THEN get_by_slug(store, e.slug) = <<>>
           ELSE /\ get_by_slug(store, e.slug) = <<e>>
                /\ store.slug_map[e.slug] = i

\* C2: after build and after any mutation of the catalog the entry sequence is
\* sorted by metadata.date in descending order.
C2_SortedByDateDesc == IsSortedDesc(store.articles)

\* C7: detect_changes returns exactly one Added for each current file that is not
\* cached, one Modified for each cached current file whose mtime is strictly
\* greater than the cached one, one Removed for each cached path that is no longer
\* a file, and nothing else, whatever the iteration order.
ExpectedChanges(s, fs, root) ==
    LET S == { p \in RootPaths(root) : fs[p].exists }
        C == DOMAIN s.file_cache
    IN { [path |-> p, change_type |-> Added] : p \in S \ C }
       \cup { [path |-> p, change_type |-> Modified] :
                  p \in { q \in S \cap C : fs[q].mtime > s.file_cache[q] } }
       \cup { [path |-> p, change_type |-> Removed] : p \in C \ S }

C7_ChangeDetection ==
    \A order \in ScanOrders(store, files, ARTICLE_DIR, ENABLE_NESTED_CATEGORIES) :
        LET d == detect_file_changes(store, files, ARTICLE_DIR,
                                     ENABLE_NESTED_CATEGORIES, order)
            expected == ExpectedChanges(store, files, ARTICLE_DIR)
        IN /\ { d[i] : i \in 1..Len(d) } = expected
           /\ Len(d) = Cardinality(expected)

\* a cached file that did not change, a cached file that was rewritten and a
\* cached file that was deleted, all in one scan
C7_Witness ==
    LET expected == ExpectedChanges(store, files, ARTICLE_DIR)
    IN /\ \E c \in expected : c.change_type = Modified
       /\ \E c \in expected : c.change_type = Removed
       /\ \E p \in DOMAIN store.file_cache :
             files[p].exists /\ files[p].mtime = store.file_cache[p]

\* C8: a second incremental_update with no filesystem change in between returns
\* false and leaves entries, slug index, tags, categories and mtime cache as they
\* were.
C8_Idempotence ==
    [][(quiet >= 1 /\ IncrementalUpdate)
          => (ret' = FALSE /\ Observable(store') = Observable(store))]_vars

\* the first call applied a change and no file changed since: the second call
\* starts here
C8_Witness ==
    /\ quiet = 1
    /\ ret = TRUE
    /\ \E i \in 1..Len(store.articles) : store.articles[i].deleted
    /\ \E p \in ArticlePaths : files[p].exists /\ ~files[p].content.ok

\* C9: when a file with an entry is deleted and incremental_update runs, the entry
\* is marked deleted, get_by_slug of its slug returns none and query never yields
\* it; when the file is recreated and incremental_update runs again, get_by_slug
\* returns a fresh entry with deleted = false that carries the new file's
\* metadata.
Tombstoned(s, p) ==
    /\ \A i \in 1..Len(s.articles) :
          s.articles[i].file_path = p => s.articles[i].deleted
    /\ get_by_slug(s, file_stem(p)) = <<>>
    /\ \A pd \in Preds :
          LET q == query(s, pd)
          IN \A i \in 1..Len(q) : q[i].file_path # p

Fresh(s, fs, p) ==
    LET e == get_by_slug(s, file_stem(p))
    IN /\ e # <<>>
       /\ ~e[1].deleted
       /\ e[1].file_path = p
       /\ e[1].last_modified = fs[p].mtime
       /\ e[1].metadata.title = fs[p].content.title
       /\ e[1].metadata.date = fs[p].content.date
       /\ e[1].metadata.draft = fs[p].content.draft
       /\ e[1].metadata.tags = fs[p].content.tags

C9_TombstoneLifeCycle ==
    [][IncrementalUpdate =>
          \A p \in ArticlePaths :
              /\ (LiveAt(store, p) /\ ~files[p].exists) => Tombstoned(store', p)
              /\ (TombstoneAt(store, p) /\ ~LiveAt(store, p)
                    /\ files[p].exists /\ files[p].content.ok)
                 => Fresh(store', files, p)]_vars

\* C10: query(predicate, offset, limit) yields the entries at positions
\* offset .. offset+limit-1 of the date-descending sequence of the entries that
\* are not tombstoned and satisfy the predicate; a draft is yielded only if the
\* predicate admits it.
ExpectedWindow(s, pd, offset, limit, r) ==
    LET kept == { i \in 1..Len(s.articles) :
                      ~s.articles[i].deleted /\ Admits(pd, s.articles[i]) }
        rank(i) == Cardinality({ j \in kept : j < i })
        window == { i \in kept : offset <= rank(i) /\ rank(i) < offset + limit }
    IN /\ Len(r) = Cardinality(window)
       /\ \A i \in window : r[rank(i) - offset + 1] = s.articles[i]
       /\ IsSortedDesc(r)
       /\ \A k \in 1..Len(r) : r[k].metadata.draft => pd.kind # "filters"

CaughtUp(root) == wpc[root] = "idle" /\ tokens[root] = 0

\* every file below the root parses
AllParse(root) == \A p \in RootPaths(root) : files[p].exists => files[p].content.ok

\* the live entries of the store for a path
LiveEntries(s, p) ==
    { i \in 1..Len(s.articles) : s.articles[i].file_path = p /\ ~s.articles[i].deleted }

\* each file has exactly one live entry, with the file's front matter; a path
\* without a file has none
AgreesWithDisk(s, root) ==
    \A p \in RootPaths(root) :
        IF files[p].exists
        THEN /\ Cardinality(LiveEntries(s, p)) = 1
             /\ \A i \in LiveEntries(s, p) :
                   LET r == process_article_file(files, p, calculate_category(p))
                   IN r.ok /\ s.articles[i].metadata = r.articles[1].metadata
        ELSE LiveEntries(s, p) = {}

\* C3: once the files of a root have stopped changing and all of them parse, the
\* watcher brings the catalog into agreement with the disk.  The watcher works
\* only while a token is pending, so the catalog it ends with is the one of a
\* state in which it is idle with no token left: in every such state in which
\* all files parse, each file has exactly one live entry carrying its current
\* front matter, and each path without a file has no live entry.
C3_CatalogFollowsDisk ==
    \A root \in Roots :
        (CaughtUp(root) /\ AllParse(root)) => AgreesWithDisk(StoreOf(root), root)

\* the slugs of the committed documents
IndexedSlugs == { index[i].slug : i \in 1..Len(index) }

\* the slugs under which the live entries of a root that are no drafts are indexed
MirroredSlugs(s, root) ==
    { index_slug(root, s.articles[i]) :
        i \in { j \in 1..Len(s.articles) :
                  ~s.articles[j].deleted /\ ~s.articles[j].metadata.draft } }

\* C4: search documents mirror entries: whenever both watchers have processed
\* every pending event, the slugs of the search index are the slugs of the live
\* article entries that are no drafts together with the notes/ slugs of the live
\* note entries that are no drafts.
C4_IndexMirrorsEntries ==
    (\A root \in Roots : CaughtUp(root)) =>
        IndexedSlugs = MirroredSlugs(store, ARTICLE_DIR) \cup MirroredSlugs(note_store, NOTES_DIR)

\* the documents the index holds for a slug
SlugDocs(idx, slug) == SelectSeq(idx, LAMBDA d : d.slug = slug)

JobSlug(job) == IF job.kind = JobIndex THEN job.article.slug ELSE job.slug

\* the last job of the batch for the slug
LastJob(batch, slug) ==
    batch[CHOOSE i \in 1..Len(batch) :
            /\ JobSlug(batch[i]) = slug
            /\ \A j \in 1..Len(batch) : JobSlug(batch[j]) = slug => j <= i]

\* what the index holds for a slug whose last job is `job`: nothing after a
\* Remove, the upserted document (none for a draft) after an Index
LastWriteWins(job) ==
    IF job.kind = JobRemove THEN <<>> ELSE index_article(<<>>, job.article)

\* C5: per-slug last-write-wins through the indexer queue: the worker takes the
\* jobs off the channel in the order sent, batch after batch, so the last job
\* sent for a slug wins if it wins in its batch: after the worker has applied a
\* batch, the index holds for every slug of the batch exactly what the last job
\* of the batch for that slug produces.
C5_LastWriteWins ==
    [][IndexerWorker =>
          \A slug \in { JobSlug(index_queue[i]) : i \in 1..Len(index_queue) } :
              SlugDocs(index', slug) = LastWriteWins(LastJob(index_queue, slug))]_vars

RECURSIVE upsert_each(_, _)
\* index_article for each document, in order
upsert_each(idx, articles) ==
    IF articles = <<>> THEN idx
    ELSE upsert_each(index_article(idx, Head(articles)), Tail(articles))

\* C6: the index after apply_batch is the index obtained by remove_article for
\* every Remove of the batch and then index_article for every upsert in order,
\* which leaves at most one document per upserted slug.
C6_BatchSemantics ==
    [][IndexerWorker =>
          index' = upsert_each(delete_terms(index, batch_removes(index_queue)),
                               batch_upserts(index_queue))]_vars

\* C11: version names grow in call order: when a save_version call creates its
\* file, the file's name is greater than the name of every file that a
\* save_version call for the slug had created before this call began, whatever
\* files the directory held at start-up and however little time lies between.
C11_VersionMonotonicity ==
    [][\A c \in Callers :
          (vpc[c] = "open" /\ vpc'[c] = "write") =>
              \A n \in vloc[c].before : n < vloc[c].candidate]_vars

\* a call that began after an earlier call of the same millisecond had created
\* its file has stepped over names in use and created its own file
C11_Witness ==
    \E c \in Callers :
        /\ vpc[c] = "write"
        /\ vloc[c].before # {}
        /\ vloc[c].candidate > vloc[c].version
        /\ \E n \in vloc[c].before : n >= vloc[c].version
        /\ \E n \in VersionNames : n > vloc[c].candidate /\ version_files[vloc[c].slug][n].exists

\* two calls that hold a file they created hold different files
DistinctVersionFiles ==
    \A c1 \in Callers, c2 \in Callers :
        (c1 # c2 /\ vpc[c1] = "write" /\ vpc[c2] = "write"
            /\ vloc[c1].slug = vloc[c2].slug)
        => vloc[c1].candidate # vloc[c2].candidate

\* a version file stays; once it has its text it never changes, and before that
\* only the call that created it writes to it
VersionFilesKept ==
    \A s \in VersionSlugs, n \in VersionNames :
        version_files[s][n].exists =>
            \/ version_files'[s][n] = version_files[s][n]
            \/ /\ version_files[s][n].text = <<>>
               /\ version_files'[s][n].exists
               /\ \E c \in Callers : /\ vpc[c] = "write" /\ vpc'[c] = "idle"
                                     /\ vloc[c].slug = s /\ vloc[c].candidate = n
                                     /\ version_files'[s][n].text = vloc[c].content

\* C12: save_version calls for one slug that run concurrently, also within one
\* millisecond, create different files, and neither overwrites or truncates the
\* other's file; a version file, once written, is never modified or deleted.
C12_ConcurrentSaves == []DistinctVersionFiles /\ [][VersionFilesKept]_vars

\* two calls that read the same millisecond have both created their file
C12_Witness ==
    \E c1 \in Callers, c2 \in Callers :
        /\ c1 # c2
        /\ vpc[c1] = "write" /\ vpc[c2] = "write"
        /\ vloc[c1].slug = vloc[c2].slug
        /\ vloc[c1].version = vloc[c2].version
        /\ vloc[c1].candidate = vloc[c1].version
        /\ vloc[c2].candidate > vloc[c2].version

\* the slug is in the slug index
SlugTaken(slug) == get_by_slug(store, slug) # <<>>

\* base-k
Suffixed(base, k) == base \o "-" \o ToString(k)

\* base when it is free, else base-k for the least k >= 1 with base-k free
FirstFreeSlug(base) ==
    IF ~SlugTaken(base) THEN base
    ELSE Suffixed(base, CHOOSE k \in 1..SlugAttempts :
                            /\ ~SlugTaken(Suffixed(base, k))
                            /\ \A j \in 1..(k - 1) : SlugTaken(Suffixed(base, j)))

\* C13: the slug prepare_metadata chooses for a title that slugifies to base is
\* base when base is not in the slug index, and otherwise base-k for the
\* smallest k >= 1 with base-k not in the slug index.
C13_UniqueSlug ==
    [][(cpc = "probe" /\ cpc' = "write") => creq'.slug = FirstFreeSlug(creq.base_slug)]_vars

\* a second request titled "A" has been given a-1 after the first was given a
C13_Witness ==
    /\ cpc = "write"
    /\ creq.slug = "a-1"
    /\ \E i \in 1..Len(store.articles) :
          /\ store.articles[i].slug = "a"
          /\ store.articles[i].metadata.title = "A"
          /\ ~store.articles[i].deleted

\* base and every suffixed slug up to the cap are in the slug index
AllSlugsTaken(base) ==
    SlugTaken(base) /\ \A k \in 1..SlugAttempts : SlugTaken(Suffixed(base, k))

\* the request ended here with the error of the cap and touched nothing
CapError ==
    /\ cpc' = "idle"
    /\ cres'.status = "bad_request"
    /\ cres'.message = "Exceeded maximum slug generation attempts"
    /\ files' = files /\ store' = store /\ version_files' = version_files

\* C14 as stated: once as many entries as the cap (base, base-1, .. up to one
\* below the cap) are in the slug index, the next creation with the title fails
\* with the error of the cap and changes nothing.
C14_CapAsStated ==
    [][(/\ cpc = "probe" /\ cpc' # "probe"
        /\ SlugTaken(creq.base_slug)
        /\ \A k \in 1..(SlugAttempts - 1) : SlugTaken(Suffixed(creq.base_slug, k)))
       => CapError]_vars

\* C14: slug generation cap: a creation fails with the error of the cap exactly
\* when base and base-1 .. base-cap are all in the slug index, so the creations
\* with one title succeed until cap + 1 entries exist and the next one fails; the
\* failing request leaves the catalog, the content root and the versions as
\* they were.
C14_SlugCap ==
    [][(cpc = "probe" /\ cpc' # "probe")
       => IF AllSlugsTaken(creq.base_slug) THEN CapError ELSE cpc' = "write"]_vars

\* a request has hit the cap after requests with the same title went through
C14_Witness ==
    /\ cpc = "idle"
    /\ cres.message = "Exceeded maximum slug generation attempts"
    /\ AllSlugsTaken("a")
    /\ \E i \in 1..Len(store.articles) :
          /\ store.articles[i].slug = Suffixed("a", SlugAttempts)
          /\ store.articles[i].metadata.title = "A"

\* C15: after prepare_metadata and a successful persist_article, get_by_slug of
\* the slug prepare_metadata returned yields an entry that is not deleted and
\* is the entry of the file just written.
C15_CreatedEntryFound ==
    [][(cpc = "update" /\ cpc' = "idle") =>
          LET found == get_by_slug(store', creq.slug)
          IN /\ found # <<>>
             /\ ~found[1].deleted
             /\ found[1].file_path = creq.file_path]_vars

\* the snapshot expected of a store: its entries that Keep admits and whose body
\* loads, in catalog order, each with its body
SnapshotOf(s, fs, root, Keep(_)) ==
    LET kept == SelectSeq(s.articles,
                          LAMBDA a : Keep(a) /\ load_content_for(s, fs, a).ok)
    IN [i \in 1..Len(kept) |->
          [slug |-> index_slug(root, kept[i]),
           metadata |-> kept[i].metadata,
           content |-> load_content_for(s, fs, kept[i]).content]]

C17_Upsert ==
    [][\A ac \in JobContents :
          IndexArticle(ac) =>
             /\ LET docs == SlugDocs(index', ac.slug)
                IN IF ac.metadata.draft THEN docs = <<>>
                   ELSE /\ Len(docs) = 1
                        /\ docs[1].title = ac.metadata.title
                        /\ docs[1].content = ac.content
                        /\ docs[1].tags = ac.metadata.tags
                        /\ docs[1].category = ""
             /\ \A i \in 1..Len(index) :
                   index[i].slug # ac.slug =>
                      SlugDocs(index', index[i].slug) = SlugDocs(index, index[i].slug)
             /\ \A i \in 1..Len(index') :
                   index'[i].slug # ac.slug =>
                      SlugDocs(index, index'[i].slug) # <<>>]_vars

\* an upsert of slug a into an index that held three documents of slug b
C17_Witness ==
    /\ Len(index) = MaxDocs + 1
    /\ Len(SlugDocs(index, <<"a">>)) = 1
    /\ Len(SlugDocs(index, <<"b">>)) = MaxDocs

\* a change of the set whose file does not parse or cannot be read
FailsToLoad(fs, change) ==
    /\ change.change_type \in {Added, Modified}
    /\ ~process_article_file(fs, change.path, None).ok

\* the result of incremental_update for the change set without its failing files
WithoutFailing(s, fs, root, nested, changes) ==
    LET good == SelectSeq(changes, LAMBDA ch : ~FailsToLoad(fs, ch))
        applied == apply_changes([store |-> s, articles_changed |-> FALSE],
                                 fs, good, nested)
    IN [ret |-> applied.articles_changed,
        store |-> IF applied.articles_changed
                  THEN update_file_cache(rebuild_indexes(applied.store), fs, root, nested)
                  ELSE applied.store]

\* every other change of the set is applied and the call returns Ok
OthersApplied ==
    \E order \in ScanOrders(store, files, ARTICLE_DIR, ENABLE_NESTED_CATEGORIES) :
       LET changes == detect_file_changes(store, files, ARTICLE_DIR,
                                          ENABLE_NESTED_CATEGORIES, order)
           expected == WithoutFailing(store, files, ARTICLE_DIR,
                                      ENABLE_NESTED_CATEGORIES, changes)
       IN /\ Observable(store') = Observable(expected.store)
          /\ ret' = expected.ret

\* the entry held for a failing file is still in the catalog, as it was
EntryIntact ==
    \A p \in ArticlePaths :
       (files[p].exists /\ ~files[p].content.ok) =>
          \A i \in 1..Len(store.articles) :
             store.articles[i].file_path = p =>
                \E j \in 1..Len(store'.articles) :
                   store'.articles[j] = store.articles[i]

\* C20: a file that fails to parse during incremental_update does not abort the
\* batch: every other change of the change set is applied, the call returns
\* success, and the entry previously held for the failing file is left intact
C20_FailingFileSkipped ==
    [][IncrementalUpdate => (OthersApplied /\ EntryIntact)]_vars

C21_FailedUpdateKeepsCatalog ==
    \A p \in ArticlePaths :
        LET u == update_single_article(store, files, p, ENABLE_NESTED_CATEGORIES)
        IN ~u.ok =>
              /\ u.store.articles = store.articles
              /\ u.store.slug_map = store.slug_map
              /\ u.store.tags = store.tags
              /\ u.store.categories = store.categories

\* an incremental_update has just run over a file that does not parse and whose
\* entry, read before the file was spoilt, is still live
C21_Witness ==
    /\ quiet = 1
    /\ \E p \in ArticlePaths :
          /\ files[p].exists /\ ~files[p].content.ok
          /\ \E i \in 1..Len(store.articles) :
                /\ store.articles[i].file_path = p
                /\ ~store.articles[i].deleted
                /\ store.articles[i].last_modified < files[p].mtime

\* C22: a rebuild of the search index that fails before its commit leaves the
\* previously committed set of documents visible to search, unchanged: while
\* the writer is open the visible documents are those committed when it was
\* opened, and they still are when the rebuild ends in an error
C22_FailedRebuildKeepsIndex ==
    /\ [](index_writer.open => index = index_writer.base)
    /\ [][RebuildFail => index' = index_writer.base]_vars

\* a rebuild has failed after its delete_all_documents, over an index that
\* held documents
C22_Witness ==
    /\ ~index_writer.open
    /\ index_writer.result = "err"
    /\ index_writer.cleared
    /\ index # <<>>

\* the entries of a catalog that are not tombstones
LiveEntriesOf(s) == { s.articles[i] : i \in { k \in 1..Len(s.articles) : ~s.articles[k].deleted } }

\* C23: after any sequence of catalog operations the tags set is the union of
\* the tags of the non-draft, non-deleted entries and the categories set is the
\* union of the categories of the non-deleted entries
C23_TagsAndCategories ==
    /\ store.tags = UNION { a.metadata.tags : a \in { e \in LiveEntriesOf(store) : ~e.metadata.draft } }
    /\ store.categories =
          { a.metadata.category : a \in { e \in LiveEntriesOf(store) : e.metadata.category # None } }

\* the catalog has just been built, or incremental_update has just returned
\* true, and no file changed since
JustScanned == (quiet = 0 /\ clock = 0) \/ (quiet >= 1 /\ ret)

\* C24: after a successful build and after every incremental_update that
\* applied a change, the keys of the mtime cache are the .md files present
\* under the root at that scan, readme files included, so a detect_file_changes
\* issued right afterwards returns the empty set
C24_MtimeCacheMirrorsScan ==
    JustScanned =>
       /\ DOMAIN store.file_cache
             = collect_all_files(files, ARTICLE_DIR, ENABLE_NESTED_CATEGORIES)
       /\ \A order \in ScanOrders(store, files, ARTICLE_DIR, ENABLE_NESTED_CATEGORIES) :
             detect_file_changes(store, files, ARTICLE_DIR,
                                 ENABLE_NESTED_CATEGORIES, order) = <<>>

\* the paths of the change set an incremental_update step works on
ChangedPaths ==
    { p \in ArticlePaths :
        \/ files[p].exists /\ p \notin DOMAIN store.file_cache
        \/ files[p].exists /\ p \in DOMAIN store.file_cache
              /\ files[p].mtime > store.file_cache[p]
        \/ ~files[p].exists /\ p \in DOMAIN store.file_cache }

\* every live entry whose body loads yields the body its file now has
BodiesFresh(s) ==
    \A i \in 1..Len(s.articles) :
        LET l == load_content_for(s, files, s.articles[i])
        IN (~s.articles[i].deleted /\ l.ok) =>
              /\ files[s.articles[i].file_path].exists
              /\ l.content = files[s.articles[i].file_path].content.body

\* C25: every Added, Modified or Removed change applied for a path purges the
\* cached body of the path, so that once incremental_update has processed the
\* changes, loading the body of an entry yields the current body of its file
\* and never a body cached before; after the update the body cache holds only
\* paths that are keys of the mtime cache
C25_BodyCacheFreshness ==
    /\ [](quiet >= 1 => BodiesFresh(store))
    /\ [][IncrementalUpdate =>
             /\ \A p \in ChangedPaths : p \notin DOMAIN store'.content_cache
             /\ DOMAIN store'.content_cache \subseteq DOMAIN store'.file_cache]_vars

\* an update has run over a file whose body was cached before it was modified;
\* the body has been loaded again since
C25_Witness ==
    /\ quiet = 1
    /\ clock = MaxClock
    /\ \E i \in 1..Len(store.articles) :
          LET a == store.articles[i]
          IN /\ ~a.deleted
             /\ a.last_modified = MaxClock
             /\ a.file_path \in DOMAIN store.content_cache

\* C26: incremental_update returns true if and only if at least one entry of
\* the catalog was added, replaced or tombstoned by the call; it returns false
\* when the change set is empty or no change of the set altered an entry
C26_TrueIffEntryAltered ==
    [][IncrementalUpdate => (ret' <=> store'.articles # store.articles)]_vars

\* the entries of the root that were live when the cycle took the write lock
\* and have been tombstoned by the cycle's update
TombstonedByCycle(root) ==
    { a \in { wloc[root].before.articles[i] :
                i \in 1..Len(wloc[root].before.articles) } :
        /\ ~a.deleted
        /\ \E j \in 1..Len(StoreOf(root).articles) :
              /\ StoreOf(root).articles[j].file_path = a.file_path
              /\ StoreOf(root).articles[j].deleted }

\* the index holds no document under the slug, or the slug now belongs to a
\* live entry of the root
NoDocumentLeft(idx, s, root, slug) ==
    \/ \A i \in 1..Len(idx) : idx[i].slug # slug
    \/ \E j \in 1..Len(s.articles) :
          /\ ~s.articles[j].deleted
          /\ index_slug(root, s.articles[j]) = slug

\* C27: for every file removed from disk whose entry was in the catalog, the
\* watcher computes the index slug of the entry (notes/-prefixed for a note)
\* before it applies the update and removes that slug from the index, so that
\* when the index operations of the cycle are done the index holds no
\* document for the removed file
C27_RemovedFilesLeaveIndex ==
    [][\A root \in {ARTICLE_DIR, NOTES_DIR} :
          WatcherIndex(root) =>
             \A a \in TombstonedByCycle(root) :
                /\ a.file_path \in DOMAIN wloc[root].removed_map
                /\ wloc[root].removed_map[a.file_path] = index_slug(root, a)
                /\ NoDocumentLeft(index', StoreOf(root)', root, index_slug(root, a))]_vars

\* the watcher of the root has replaced the catalog by a full rebuild and has
\* not yet reached the end of its cycle
RebuiltByFallback(root) == wpc[root] = "reindex"

RECURSIVE Flatten(_)
\* the jobs of a sequence of batches, in order
Flatten(batches) ==
    IF batches = <<>> THEN <<>> ELSE Head(batches) \o Flatten(Tail(batches))

\* C29: every job sent on the indexer channel is eventually included in exactly
\* one batch passed to apply_batch, no job being lost or applied twice while
\* the worker runs; batches are formed from consecutive jobs in channel order,
\* and apply_batch is never called with an empty batch
C29_EveryJobInOneBatch ==
    /\ [](sent_log = Flatten(applied_log) \o worker_batch \o index_queue)
    /\ [](\A i \in 1..Len(applied_log) : applied_log[i] # <<>>)
    /\ \A n \in 1..MaxQueued :
          (Len(sent_log) >= n) ~> (Len(Flatten(applied_log)) >= n)

\* the worker has applied two batches, one of them of more than one job
C29_Witness ==
    /\ Len(applied_log) = 2
    /\ \E i \in 1..2 : Len(applied_log[i]) >= 2
    /\ Len(sent_log) = MaxQueued
    /\ index_queue = <<>>
    /\ worker_pc = "recv"

\* the slug index holds exactly the entries that are not deleted
SlugIndexExact(s) == s.slug_map = slug_map_of(s.articles, FALSE)

RemovedWithEntry ==
    { p \in ArticlePaths :
        ~files[p].exists /\ p \in DOMAIN store.file_cache /\ LiveAt(store, p) }

\* no tombstone of the store is returned by get_by_slug or by a query
TombstonesHidden(s) ==
    \A i \in 1..Len(s.articles) :
        s.articles[i].deleted =>
           /\ get_by_slug(s, s.articles[i].slug) # <<s.articles[i]>>
           /\ \A pd \in Preds :
                 \A j \in 1..Len(query(s, pd)) : query(s, pd)[j] # s.articles[i]

\* the slug of the path's entry now belongs to a live entry of another file
SlugTakenOver(s, after, p) ==
    \E j \in 1..Len(s.articles), i \in 1..Len(after.articles) :
        /\ s.articles[j].file_path = p
        /\ after.articles[i].slug = s.articles[j].slug
        /\ after.articles[i].file_path # p
        /\ ~after.articles[i].deleted

\* C31: incremental updates never remove an entry physically: over any
\* sequence of incremental_update calls the number of entries never decreases
\* and every slug keeps an entry; a deleted source file only turns its entry
\* into a tombstone, which stays in the sequence (until a file of the same slug
\* takes its place) and is hidden from get_by_slug and query
C31_EntriesNeverRemoved ==
    /\ [][IncrementalUpdate =>
             /\ Len(store'.articles) >= Len(store.articles)
             /\ \A j \in 1..Len(store.articles) :
                   \E i \in 1..Len(store'.articles) :
                       store'.articles[i].slug = store.articles[j].slug
             /\ \A p \in RemovedWithEntry :
                   /\ ~LiveAt(store', p)
                   /\ TombstoneAt(store', p) \/ SlugTakenOver(store, store', p)]_vars
    /\ [](quiet >= 1 => TombstonesHidden(store))

\* the paths for which detect_file_changes reports Removed in this state
RemovedPaths ==
    { p \in ArticlePaths : ~files[p].exists /\ p \in DOMAIN store.file_cache }

\* what remove_article_by_path may change: the deleted flag of one entry of the
\* path, the slug index entry of its slug, the cached body of the path
RemoveFrame(s, p) ==
    LET r == remove_article_by_path(s, p)
        hit == { i \in 1..Len(s.articles) :
                   s.articles[i] # r.store.articles[i] }
    IN /\ Len(r.store.articles) = Len(s.articles)
       /\ \A i \in hit :
             /\ s.articles[i].file_path = p
             /\ r.store.articles[i] = [s.articles[i] EXCEPT !.deleted = TRUE]
       /\ \A sl \in DOMAIN s.slug_map \cup DOMAIN r.store.slug_map :
             (sl \notin DOMAIN r.store.slug_map \/ sl \notin DOMAIN s.slug_map
                \/ r.store.slug_map[sl] # s.slug_map[sl])
             => \E i \in 1..Len(s.articles) :
                   s.articles[i].file_path = p /\ s.articles[i].slug = sl
       /\ \A q \in DOMAIN s.content_cache \cup DOMAIN r.store.content_cache :
             q # p => /\ q \in DOMAIN s.content_cache
                      /\ q \in DOMAIN r.store.content_cache
                      /\ r.store.content_cache[q] = s.content_cache[q]
       /\ p \notin DOMAIN r.store.content_cache
       /\ r.store.tags = s.tags
       /\ r.store.categories = s.categories
       /\ r.store.file_cache = s.file_cache
       /\ r.removed <=> hit # {}

\* C32: applying a Removed change for a path changes only the deleted flag of
\* the entry with that file_path, the slug index entry of its slug and the
\* cached body of the path; the tags and categories sets and every other entry
\* are left unchanged, and the call returns true iff an entry was tombstoned
C32_RemoveFrame == \A p \in RemovedPaths : RemoveFrame(store, p)

\* the documents of notes: their slug starts with the segment "notes"
IsNoteDoc(d) == Len(d.slug) >= 2 /\ d.slug[1] = "notes"

NoteDocs(idx) == SelectSeq(idx, IsNoteDoc)

ArticleDocs(idx) == SelectSeq(idx, LAMBDA d : ~IsNoteDoc(d))

\* the terms of the live, published entries of a store other than entry n
TermsOfOthers(s, n) ==
    UNION { {s.articles[i].metadata.title} \cup s.articles[i].metadata.tags
              \cup (IF files[s.articles[i].file_path].exists
                    THEN {files[s.articles[i].file_path].content.body} ELSE {}) :
            i \in { j \in 1..Len(s.articles) :
                      /\ s.articles[j] # n
                      /\ ~s.articles[j].deleted
                      /\ ~s.articles[j].metadata.draft } }

\* a body that appears in note n alone is found once, under notes/<n>
FoundOnce(n) ==
    LET term == files[n.file_path].content.body
    IN (/\ ~n.deleted /\ ~n.metadata.draft
        /\ files[n.file_path].exists
        /\ term \notin TermsOfOthers(store, n) \cup TermsOfOthers(note_store, n)
        /\ term # n.metadata.title /\ term \notin n.metadata.tags)
       => search(index, term) = << index_slug(NOTES_DIR, n) >>

\* C33: articles and notes share one index: a note is indexed under its slug
\* prefixed with notes/, an upsert or remove of a note never changes the
\* document of an article, nor one of an article the document of a note, even
\* when both have the same file stem, and once the watchers have caught up a
\* search for a term that appears only in note n returns the single hit notes/n
C33_NotesBesideArticles ==
    /\ [][/\ WatcherIndex(NOTES_DIR) => ArticleDocs(index') = ArticleDocs(index)
          /\ WatcherIndex(ARTICLE_DIR) => NoteDocs(index') = NoteDocs(index)]_vars
    /\ []((\A root \in Roots : CaughtUp(root)) =>
            \A i \in 1..Len(note_store.articles) : FoundOnce(note_store.articles[i]))

\* how often a query text was recorded
Times(q) == Cardinality({ i \in 1..Len(recorded) : recorded[i] = q })

\* the last n elements of a sequence
LastOf(s, n) == IF Len(s) <= n THEN s ELSE SubSeq(s, Len(s) - n + 1, Len(s))

\* C34: after any sequence of record_search calls the ring of recent searches
\* holds at most MaxRecent events (1000 in the source), they are the most recent
\* ones in arrival order, and the counter of every query text equals the
\* number of times that text was recorded
C34_SearchStatistics ==
    /\ Len(recent_searches) <= MaxRecent
    /\ \A q \in Queries :
         (IF q \in DOMAIN search_stats THEN search_stats[q] ELSE 0) = Times(q)
    /\ spc = "idle" =>
         /\ [i \in 1..Len(recent_searches) |-> recent_searches[i].query]
              = LastOf(recorded, MaxRecent)
         /\ \A i \in 1..Len(recent_searches) :
              recent_searches[i].timestamp = Len(recorded) - Len(recent_searches) + i

C34_Witness ==
    /\ spc = "idle"
    /\ Len(recorded) > MaxRecent + 1
    /\ \E q \in DOMAIN search_stats : search_stats[q] >= 2
    /\ recorded[1] # recorded[Len(recorded)]
    /\ Len(recent_searches) = MaxRecent

\* slug, file_path and metadata (the category included) of the live entries
LiveTriples(s) ==
    { <<s.articles[i].slug, s.articles[i].file_path, s.articles[i].metadata>> :
        i \in { j \in 1..Len(s.articles) : ~s.articles[j].deleted } }

\* the paths whose stem no other existing file of the root shares
StemsDistinct ==
    \A p, q \in RootPaths(ARTICLE_DIR) :
        (files[p].exists /\ files[q].exists /\ file_stem(p) = file_stem(q)) => p = q

\* C35: with parseable files and every creation, modification and deletion
\* followed by incremental_update, the live entries (slug, file_path, metadata)
\* equal those of a fresh build over the same files, also when two files in
\* different directories share a stem
C35_UpdateAgreesWithBuild ==
    quiet >= 1 =>
        \A order \in WalkOrders(files, ARTICLE_DIR, ENABLE_NESTED_CATEGORIES) :
            LiveTriples(store)
              = LiveTriples(new(files, ARTICLE_DIR, ENABLE_NESTED_CATEGORIES, order).store)

\* a create request has its slug and has not yet answered
Chosen(pc) == pc \in {"write", "update"}

\* C36: two create operations with the same title that run concurrently never
\* obtain the same slug and never write the same source file: the check of the
\* slug and the write of one cannot interleave with those of the other so that
\* the second overwrites the first
C36_ConcurrentCreatesDiffer ==
    /\ []((Chosen(cpc) /\ Chosen(cpc2) /\ creq.title = creq2.title) =>
            /\ creq.slug # creq2.slug
            /\ creq.file_path # creq2.file_path)
    /\ [][/\ (SecondWrite /\ cpc = "update") => creq2.file_path # creq.file_path
          /\ (CreateWrite /\ cpc2 = "update") => creq.file_path # creq2.file_path]_vars

\* the positions of the live entries of a store
LivePositions(s) == { i \in 1..Len(s.articles) : ~s.articles[i].deleted }

\* C37: in every reachable state of the catalog, after the build and after any
\* incremental updates, no two non-deleted entries have the same slug and no two
\* non-deleted entries have the same file_path
C37_LiveEntriesDistinct ==
    \A i, j \in LivePositions(store) :
        \/ i = j
        \/ /\ store.articles[i].slug # store.articles[j].slug
           /\ store.articles[i].file_path # store.articles[j].file_path

\* C38: once a mutation batch has been applied and the response cache
\* invalidated, no later unauthenticated GET is answered from the cache with a
\* response computed from the catalog before the mutation, even when a request
\* that read the old catalog is between its read and its cache insert while the
\* invalidation happens: what the cache answers is the list of the catalog
C38_NoStaleAnswerAfterInvalidation ==
    [][GetHit => gserved'.body = list_response(store)]_vars

====
